---- MODULE Spec2Model ----
(***************************************************************************)
(* A model of the SquirrelDB Python SDK's two protocol clients:            *)
(*   SquirrelDBTcp (squirreldb/tcp.py)   the TCP wire-protocol client      *)
(*   SquirrelDB    (squirreldb/client.py) the reconnecting WebSocket client*)
(* One client object is constructed (Init picks which class and, for the   *)
(* WebSocket client, its reconnect configuration); callers then issue      *)
(* operations while the server sends messages or ends the connection.      *)
(* asyncio runs one coroutine at a time, so every action is the code       *)
(* between two suspension points (await) of one coroutine.                 *)
(***************************************************************************)
EXTENDS Integers, Sequences, FiniteSets, TLC

VARIABLES
    client,             \* "tcp" (SquirrelDBTcp) or "ws" (SquirrelDB)
    cfg,                \* [reconnect, max_reconnect_attempts] (client.py __init__)
    sock,               \* self._writer / self._ws: "none" is None, else the object's state
    closed,             \* self._closed
    recv_task,          \* state of the task self._recv_task
    request_id,         \* self._request_id (tcp) / number of uuids drawn (ws)
    pending,            \* self._pending: id -> the call whose future is stored (0: no key)
    subscriptions,      \* keys of self._subscriptions
    queue,              \* id -> content of the Subscription's asyncio.Queue (tcp)
    calls,              \* the callers' operations: [op, id, pc]
    fut,                \* the future created by each call's _send: [st, msg, n]
    write_lock,         \* self._write_lock: 0 free, else the call holding it
    closePc,            \* position of the caller of close()
    sub_closed,         \* ids of the Subscription objects whose _closed is True
    iter,               \* id -> state of the caller iterating Subscription id
    reconnect_attempts, \* self._reconnect_attempts
    unsub_done,         \* ids whose unsubscribe has returned to its caller
    last,               \* the response, or the notification of a subscription callers
                        \* hold or the server has confirmed, that the step just taken
                        \* dispatched to nowhere, if any
    raised,             \* what the operation that just resumed from "await future"
                        \* raised to its caller, if anything: [call, op, exc, msg]
    delay,              \* the local "delay" of _handle_disconnect while it runs (0: none)
    auth_token,         \* self._auth_token: a sequence of code points
    flags,              \* self._flags: [messagepack, json_fallback]
    encoding,           \* self._encoding: an Encoding code
    hs,                 \* progress and outcome of SquirrelDBTcp._connect's handshake
    wire,               \* the bytes last written to the socket
    ret,                \* the last application of a protocol function: [fn, arg, val]
    sent,               \* number of change notifications the server has sent (tcp)
    received,           \* id -> the events the receive loop received for the
                        \* subscription while it was registered, in order
    yielded,            \* id -> the events Subscription.__anext__ has returned, in order
    cache_lock,         \* Cache._lock: 0 free, else the caller holding it
    executes,           \* the callers of Cache._execute: [pc, reply]
    written,            \* the commands written to the cache socket, in order
    served,             \* how many of them the cache server has answered
    inbuf               \* the replies in the StreamReader's buffer, not yet parsed

\* The state of the two clients' request machinery.
connVars == << client, cfg, sock, closed, recv_task, request_id, pending,
               subscriptions, queue, calls, fut, write_lock, closePc, sub_closed,
               iter, reconnect_attempts, unsub_done, last, raised, delay >>

\* The state of the tcp handshake and of the wire codec.
protoVars == << auth_token, flags, encoding, hs, wire, ret >>

\* The history of one tcp client's change notifications.
deliverVars == << sent, received, yielded >>

\* The state of the cache client (squirreldb/cache.py).
cacheVars == << cache_lock, executes, written, served, inbuf >>

vars == << connVars, protoVars, deliverVars, cacheVars >>

(***************************************************************************)
(* Bounds of the model.                                                    *)
(***************************************************************************)
MaxCalls == 2       \* operations issued by callers in one run
MaxQueue == 1       \* change events held per subscription
MaxAttempts == 2    \* the max_reconnect_attempts the ws client is built with
MaxSubs == 1        \* subscribe operations issued in one run

\* The reconnect_delay the ws client is built with (the default, in seconds).
ReconnectDelay == 1

MaxPayload == 65534 \* bytes of the longest payload framed
MaxFrames == 2      \* request frames sent in one handshake session
MaxEvents == 2      \* change notifications the server sends in one run
MaxExecutes == 3    \* callers of Cache._execute in one run

Calls == 1..MaxCalls
Ids == 1..MaxCalls
Executors == 1..MaxExecutes

\* Inbound message bodies: the keys the dispatchers read, "id" and "type".
MsgTypes == {"result", "error", "change"}
Messages == [id : Ids, type : MsgTypes]
NoMsg == [id |-> 0, type |-> "none"]

\* A call not yet started, and a call that has returned or raised.
NoCall == [op |-> "none", id |-> 0, pc |-> "idle"]
Finished == [op |-> "done", id |-> 0, pc |-> "done"]
NoFuture == [st |-> "none", msg |-> NoMsg, n |-> 0]
NewFuture == [st |-> "waiting", msg |-> NoMsg, n |-> 0]

\* The operation returned; the operation of call c (a request, a subscribe,
\* an unsubscribe) raised exception exc, carrying the text of message m
\* (NoMsg: a text of the client's own).
NoRaise == [call |-> 0, op |-> "none", exc |-> "none", msg |-> NoMsg]
Raised(c, exc, m) == [call |-> c, op |-> calls[c].op, exc |-> exc, msg |-> m]

(***************************************************************************)
(* The wire protocol (squirreldb/protocol.py).  A byte string is a sequence *)
(* of numbers 0..255; a call returns a value or raises.                    *)
(***************************************************************************)
MAGIC == << 83, 81, 82, 76 >>       \* b"SQRL"
PROTOCOL_VERSION == 1

\* class HandshakeStatus(IntEnum)
SUCCESS == 0
VERSION_MISMATCH == 1
AUTH_FAILED == 2
HandshakeStatus == {SUCCESS, VERSION_MISMATCH, AUTH_FAILED}

\* class MessageType(IntEnum)
REQUEST == 1
RESPONSE == 2
NOTIFICATION == 3
MessageType == {REQUEST, RESPONSE, NOTIFICATION}

\* class Encoding(IntEnum)
MESSAGEPACK == 1
JSON == 2
Encoding == {MESSAGEPACK, JSON}

\* The largest number struct's ">H" format packs.
MaxUShort == 65535

Return(v) == [ok |-> TRUE, val |-> v]
Raise(exc, msg) == [ok |-> FALSE, exc |-> exc, msg |-> msg]

\* ProtocolFlags.to_byte with the two bits exchanged.
ToByteSwapped(f) ==
    (IF f.messagepack THEN 2 ELSE 0) + (IF f.json_fallback THEN 1 ELSE 0)

\* ProtocolFlags.to_byte: byte = 0; byte |= 0x01 if messagepack; byte |= 0x02
\* if json_fallback.
ToByte(f) ==
    (IF f.messagepack THEN 1 ELSE 0) + (IF f.json_fallback THEN 2 ELSE 0)

\* A from_byte that tests bit 0 for both fields.
FromByteLow(byte) ==
    [messagepack |-> (byte % 2) = 1, json_fallback |-> (byte % 2) = 1]

\* ProtocolFlags.from_byte: bool(byte & 0x01), bool(byte & 0x02).
FromByte(byte) ==
    [messagepack |-> (byte % 2) = 1, json_fallback |-> ((byte \div 2) % 2) = 1]

\* ProtocolFlags(): both fields default to True.
DefaultFlags == [messagepack |-> TRUE, json_fallback |-> TRUE]

\* str.encode("utf-8") of one code point of the basic plane.
Utf8Char(cp) ==
    IF cp < 128 THEN << cp >>
    ELSE IF cp < 2048 THEN << 192 + (cp \div 64), 128 + (cp % 64) >>
    ELSE << 224 + (cp \div 4096), 128 + ((cp \div 64) % 64), 128 + (cp % 64) >>

RECURSIVE Utf8Seq(_)
Utf8Seq(s) == IF s = << >> THEN << >> ELSE Utf8Char(Head(s)) \o Utf8Seq(Tail(s))

\* str.encode("utf-8"): an ASCII string is its own encoding.
Utf8(s) == IF \A i \in DOMAIN s : s[i] < 128 THEN s ELSE Utf8Seq(s)

\* struct.pack(">H", n) and struct.pack(">I", n) for n in range, big-endian.
PackH(n) == << n \div 256, n % 256 >>
PackI(n) == << (n \div 16777216) % 256, (n \div 65536) % 256, (n \div 256) % 256, n % 256 >>

\* struct.unpack(">I", b)[0]
UnpackI(b) == (b[1] * 16777216) + (b[2] * 65536) + (b[3] * 256) + b[4]

\* A handshake whose length field is the number of characters of the token.
build_handshake_chars(token, f) ==
    IF Len(token) > MaxUShort
    THEN Raise("struct.error", "'H' format requires 0 <= number <= 65535")
    ELSE Return(MAGIC \o << PROTOCOL_VERSION >> \o << ToByte(f) >>
                  \o PackH(Len(token)) \o Utf8(token))

\* build_handshake: struct.pack(">H", len(token_bytes)) raises struct.error
\* when the encoded token is longer than 65535 bytes.
build_handshake(token, f) ==
    LET token_bytes == Utf8(token)
    IN  IF Len(token_bytes) > MaxUShort
        THEN Raise("struct.error", "'H' format requires 0 <= number <= 65535")
        ELSE Return(MAGIC \o << PROTOCOL_VERSION >> \o << ToByte(f) >>
                      \o PackH(Len(token_bytes)) \o token_bytes)

\* A parser that accepts every status byte.
parse_handshake_response_lax(data) ==
    IF Len(data) < 19
    THEN Raise("ValueError", "Handshake response too short")
    ELSE Return([status |-> data[1], version |-> data[2],
                 flags |-> FromByte(data[3]), session_id |-> SubSeq(data, 4, 19)])

\* parse_handshake_response: HandshakeStatus(data[0]) raises ValueError for a
\* byte that is no member of the enum.
parse_handshake_response(data) ==
    IF Len(data) < 19
    THEN Raise("ValueError", "Handshake response too short")
    ELSE IF data[1] \notin HandshakeStatus
    THEN Raise("ValueError", "not a valid HandshakeStatus")
    ELSE Return([status |-> data[1], version |-> data[2],
                 flags |-> FromByte(data[3]), session_id |-> SubSeq(data, 4, 19)])

\* A frame whose length field counts the payload only.
build_frame_short(msg_type, enc, payload) ==
    PackI(Len(payload)) \o << msg_type >> \o << enc >> \o payload

\* build_frame: length = len(payload) + 2, then type, encoding, payload.
build_frame(msg_type, enc, payload) ==
    PackI(Len(payload) + 2) \o << msg_type >> \o << enc >> \o payload

\* parse_frame_header: MessageType(data[4]) and Encoding(data[5]) raise
\* ValueError for a byte that is no member of the enum.
parse_frame_header(data) ==
    IF Len(data) < 6
    THEN Raise("ValueError", "Frame header too short")
    ELSE IF data[5] \notin MessageType
    THEN Raise("ValueError", "not a valid MessageType")
    ELSE IF data[6] \notin Encoding
    THEN Raise("ValueError", "not a valid Encoding")
    ELSE Return([payload_length |-> UnpackI(SubSeq(data, 1, 4)) - 2,
                 msg_type |-> data[5], encoding |-> data[6]])

(***************************************************************************)
(* asyncio.Future: done(), and the three completions as the code calls     *)
(* them, each behind "if not future.done()".  n counts effective           *)
(* completions of the future.                                              *)
(***************************************************************************)
Done(f) == f.st \in {"result", "exception", "cancelled"}

\* set_result without the done() guard.
SetResultUnguarded(f, m) == [st |-> "result", msg |-> m, n |-> f.n + 1]

SetResult(f, m) ==
    IF ~Done(f) THEN [st |-> "result", msg |-> m, n |-> f.n + 1] ELSE f

SetException(f) ==
    IF ~Done(f) THEN [st |-> "exception", msg |-> NoMsg, n |-> f.n + 1] ELSE f

Cancel(f) ==
    IF ~Done(f) THEN [st |-> "cancelled", msg |-> NoMsg, n |-> f.n + 1] ELSE f

\* The calls whose futures are values of self._pending.
PendingCalls == {pending[i] : i \in {j \in Ids : pending[j] # 0}}

EmptyPending == [i \in Ids |-> 0]

\* "for future in self._pending.values(): if not future.done(): future.set_exception(...)"
RejectAll == [c \in Calls |-> IF c \in PendingCalls THEN SetException(fut[c]) ELSE fut[c]]

\* "for future in self._pending.values(): if not future.done(): future.cancel()"
CancelAll == [c \in Calls |-> IF c \in PendingCalls THEN Cancel(fut[c]) ELSE fut[c]]

\* No handshake made yet, no protocol function applied yet.
HsIdle == [stage |-> "init", response |-> << >>, error |-> "none",
           session_id |-> << >>, sent |-> 0]
NoRet == [fn |-> "none"]

\* SquirrelDBTcp.__init__: the encoding the client starts with.
InitialEncoding(f) == IF f.messagepack THEN MESSAGEPACK ELSE JSON

\* The handshake state of a client built with the default arguments.
ProtoIdle ==
    /\ auth_token = << >>
    /\ flags = DefaultFlags
    /\ encoding = InitialEncoding(DefaultFlags)
    /\ hs = HsIdle
    /\ wire = << >>
    /\ ret = NoRet

\* No notification sent, nothing received or yielded.
DeliverIdle ==
    /\ sent = 0
    /\ received = [i \in Ids |-> << >>]
    /\ yielded = [i \in Ids |-> << >>]

\* A caller of Cache._execute that has not called, and Cache.__init__.
NoExecute == [pc |-> "idle", reply |-> 0]
CacheIdle ==
    /\ cache_lock = 0
    /\ executes = [c \in Executors |-> NoExecute]
    /\ written = << >>
    /\ served = 0
    /\ inbuf = << >>

(***************************************************************************)
(* Construction: the state after __init__ of either class.                 *)
(***************************************************************************)
ConnInit ==
    /\ client \in {"tcp", "ws"}
    /\ cfg \in [reconnect : BOOLEAN, max_reconnect_attempts : {MaxAttempts}]
    /\ (client = "tcp") => ~cfg.reconnect
    /\ sock = "none"
    /\ closed = FALSE
    /\ recv_task = "none"
    /\ request_id = 0
    /\ pending = EmptyPending
    /\ subscriptions = {}
    /\ queue = [i \in Ids |-> << >>]
    /\ calls = [c \in Calls |-> NoCall]
    /\ fut = [c \in Calls |-> NoFuture]
    /\ write_lock = 0
    /\ closePc = "idle"
    /\ sub_closed = {}
    /\ iter = [i \in Ids |-> "none"]
    /\ reconnect_attempts = 0
    /\ unsub_done = {}
    /\ last = NoMsg
    /\ raised = NoRaise
    /\ delay = 0

Init == ConnInit /\ ProtoIdle /\ DeliverIdle /\ CacheIdle

(***************************************************************************)
(* connect(): SquirrelDBTcp._connect opens the socket, performs the        *)
(* handshake and starts the receive loop; SquirrelDB._connect opens the    *)
(* WebSocket and starts the receive loop.  outcome: "refused" (opening the *)
(* connection raises), "handshake" (tcp: the handshake raises after the    *)
(* writer was stored), "ok".                                               *)
(***************************************************************************)
Connect(outcome) ==
    /\ sock = "none" /\ recv_task = "none" /\ closePc = "idle"
    /\ outcome = "handshake" => client = "tcp"
    /\ sock' = IF outcome = "refused" THEN "none" ELSE "open"
    /\ recv_task' = IF outcome = "ok" THEN "running" ELSE "none"
    /\ reconnect_attempts' = IF outcome = "ok" THEN 0 ELSE reconnect_attempts
    /\ last' = NoMsg /\ raised' = NoRaise
    /\ UNCHANGED << client, cfg, closed, request_id, pending, subscriptions, queue,
                    calls, fut, write_lock, closePc, sub_closed, iter, unsub_done, delay,
                    protoVars, deliverVars, cacheVars >>

(***************************************************************************)
(* A caller starts an operation.  "request" stands for query, query_raw,   *)
(* insert, update, delete and list_collections, which all build a message  *)
(* with a fresh id, await _send and raise on a response of type "error"    *)
(* (ping sends the same way and differs in its check of the response       *)
(* type); "subscribe" does the same and then                               *)
(* registers the subscription; "unsubscribe" is Subscription.unsubscribe   *)
(* (tcp) or SquirrelDB.unsubscribe (ws) of a subscription the caller holds.*)
(* Calls are numbered in the order they are started.                       *)
(***************************************************************************)
\* The subscription ids callers hold (subscribe has returned them).
Held == {i \in Ids : iter[i] # "none"}

CanStart(c) ==
    /\ calls[c].op = "none"
    /\ \A d \in Calls : d < c => calls[d].op # "none"

Subscribes == Cardinality({d \in Calls : calls[d].op = "subscribe"})

\* A counter that is not incremented once the first id has been issued.
NextIdStuck == IF request_id = 0 THEN 1 ELSE request_id

\* Ids that start over whenever no request is pending.
NextIdPerGeneration == IF pending = EmptyPending THEN 1 ELSE request_id + 1

\* _next_id (tcp): increment, then the counter as a string.
\* _generate_id (ws): uuid4, a value no earlier call drew.
NextId == request_id + 1

\* A writer that never waits for the lock.
LockIgnored == TRUE

\* self._write_lock is not held: "async with self._write_lock" enters at once.
LockFree == write_lock = 0

\* A lock that stays held when its holder leaves the write section.
LockKept(c) == write_lock

\* Leaving "async with self._write_lock" (normally or by an exception): the
\* holder releases the lock.
ReleaseLock(c) == IF write_lock = c THEN 0 ELSE write_lock

\* _send up to its first suspension point, for call c carrying message id i:
\* raise if there is no socket object, else register the future and write (the
\* tcp client takes the write lock first, if it is free; the ws client calls
\* self._ws.send).
SendBegin(c, op, i) ==
    IF sock = "none"
    THEN /\ calls' = [calls EXCEPT ![c] = Finished]
         /\ last' = NoMsg /\ raised' = NoRaise
         /\ UNCHANGED << pending, fut, write_lock >>
    ELSE /\ pending' = [pending EXCEPT ![i] = c]
         /\ fut' = [fut EXCEPT ![c] = NewFuture]
         /\ last' = NoMsg /\ raised' = NoRaise
         /\ IF client = "tcp" /\ ~LockFree
            THEN /\ calls' = [calls EXCEPT ![c] = [op |-> op, id |-> i, pc |-> "lock"]]
                 /\ UNCHANGED write_lock
            ELSE /\ calls' = [calls EXCEPT ![c] = [op |-> op, id |-> i, pc |-> "drain"]]
                 /\ write_lock' = IF client = "tcp" THEN c ELSE write_lock

\* query / insert / ... / subscribe: a fresh id, then _send.
CallRequest(c, op) ==
    /\ CanStart(c)
    /\ op \in {"request", "subscribe"}
    /\ op = "subscribe" => Subscribes < MaxSubs
    /\ request_id' = NextId
    /\ SendBegin(c, op, NextId)
    /\ UNCHANGED << client, cfg, sock, closed, recv_task, subscriptions, queue,
                    closePc, sub_closed, iter, reconnect_attempts, unsub_done, delay,
                    protoVars, deliverVars, cacheVars >>

\* An unsubscribe that leaves the subscription registered.
PopSubscriptionKept(subs, s) == subs

\* self._subscriptions.pop(subscription_id, None)
PopSubscription(subs, s) == subs \ {s}

\* Subscription.unsubscribe then SquirrelDBTcp.unsubscribe: mark the iterator
\* closed, pop the subscription, and write the unsubscribe frame if a writer
\* exists (else return at once).
TcpUnsubscribe(c, s) ==
    /\ client = "tcp"
    /\ CanStart(c)
    /\ s \in Held
    /\ sub_closed' = sub_closed \cup {s}
    /\ subscriptions' = PopSubscription(subscriptions, s)
    /\ IF sock = "none"
       THEN /\ calls' = [calls EXCEPT ![c] = Finished]
            /\ unsub_done' = unsub_done \cup {s}
            /\ last' = NoMsg /\ raised' = NoRaise
            /\ UNCHANGED write_lock
       ELSE /\ last' = NoMsg /\ raised' = NoRaise
            /\ UNCHANGED unsub_done
            /\ IF ~LockFree
               THEN /\ calls' = [calls EXCEPT ![c] =
                                    [op |-> "unsubscribe", id |-> s, pc |-> "lock"]]
                    /\ UNCHANGED write_lock
               ELSE /\ calls' = [calls EXCEPT ![c] =
                                    [op |-> "unsubscribe", id |-> s, pc |-> "drain"]]
                    /\ write_lock' = c
    /\ UNCHANGED << client, cfg, sock, closed, recv_task, request_id, pending, queue,
                    fut, closePc, iter, reconnect_attempts, delay, protoVars, deliverVars, cacheVars >>

\* SquirrelDB.unsubscribe: _send a message whose id is the subscription id; the
\* subscription is popped only after _send has returned.
WsUnsubscribe(c, s) ==
    /\ client = "ws"
    /\ CanStart(c)
    /\ s \in Held
    /\ SendBegin(c, "unsubscribe", s)
    /\ UNCHANGED << client, cfg, sock, closed, recv_task, request_id, subscriptions,
                    queue, closePc, sub_closed, iter, reconnect_attempts, unsub_done, delay,
                    protoVars, deliverVars, cacheVars >>

\* "async with self._write_lock": a waiter gets the lock once it is free, and writes.
SendAcquire(c) ==
    /\ calls[c].pc = "lock"
    /\ LockFree
    /\ write_lock' = c
    /\ calls' = [calls EXCEPT ![c].pc = "drain"]
    /\ last' = NoMsg /\ raised' = NoRaise
    /\ UNCHANGED << client, cfg, sock, closed, recv_task, request_id, pending,
                    subscriptions, queue, fut, closePc, sub_closed, iter,
                    reconnect_attempts, unsub_done, delay, protoVars, deliverVars, cacheVars >>

\* Whether a write on the socket completes: StreamWriter.drain raises once the
\* connection was reset or closed locally (a peer's EOF leaves the write side
\* open); websockets' send raises ConnectionClosed on any closed connection.
WriteOk ==
    IF client = "tcp" THEN sock \in {"open", "eof"} ELSE sock = "open"

\* The write completes or raises, and the lock is released.  _send goes on to
\* "return await future", or raises and leaves its future in self._pending;
\* tcp's unsubscribe returns or raises.
SendDrain(c) ==
    /\ calls[c].pc = "drain"
    /\ write_lock' = ReleaseLock(c)
    /\ LET op == calls[c].op
           i == calls[c].id
           tcpUnsub == client = "tcp" /\ op = "unsubscribe"
       IN  /\ calls' = [calls EXCEPT ![c] =
                  IF WriteOk /\ ~tcpUnsub THEN [@ EXCEPT !.pc = "await"] ELSE Finished]
           /\ last' = NoMsg /\ raised' = NoRaise
           /\ unsub_done' = IF WriteOk /\ tcpUnsub THEN unsub_done \cup {i} ELSE unsub_done
    /\ UNCHANGED << client, cfg, sock, closed, recv_task, request_id, pending,
                    subscriptions, queue, fut, closePc, sub_closed, iter,
                    reconnect_attempts, delay, protoVars, deliverVars, cacheVars >>

\* A subscribe that does not look at the type of its response.
OutcomeSubscribeUnchecked(c) ==
    CASE fut[c].st = "exception" -> "conn_error"
      [] fut[c].st = "cancelled" -> "cancelled"
      [] fut[c].st = "result" /\ calls[c].op \in {"unsubscribe", "subscribe"} -> "ok"
      [] fut[c].st = "result" /\ fut[c].msg.type = "error" -> "server_error"
      [] OTHER -> "ok"

\* An operation that hands a response of type "error" to its caller as a result.
OutcomeErrorReturned(c) ==
    CASE fut[c].st = "exception" -> "conn_error"
      [] fut[c].st = "cancelled" -> "cancelled"
      [] OTHER -> "ok"

\* What the operation does with the outcome of "await future": the exception
\* or cancellation propagates; query, insert, ..., subscribe raise on a
\* message of type "error" (ws unsubscribe ignores the message).
Outcome(c) ==
    CASE fut[c].st = "exception" -> "conn_error"
      [] fut[c].st = "cancelled" -> "cancelled"
      [] fut[c].st = "result" /\ calls[c].op = "unsubscribe" -> "ok"
      [] fut[c].st = "result" /\ fut[c].msg.type = "error" -> "server_error"
      [] OTHER -> "ok"

\* What the operation raises to its caller: the exception or cancellation of
\* the future; for a message of type "error", SquirrelDBError(resp["error"])
\* (tcp) or Exception(resp["error"]) (ws), whose text is the response's.
Reply(c) ==
    CASE Outcome(c) = "conn_error" -> Raised(c, "ConnectionError", NoMsg)
      [] Outcome(c) = "cancelled" -> Raised(c, "CancelledError", NoMsg)
      [] Outcome(c) = "server_error" ->
            Raised(c, IF client = "tcp" THEN "SquirrelDBError" ELSE "Exception", fut[c].msg)
      [] OTHER -> NoRaise

\* The caller resumes from "await future": _send returns the message or raises;
\* subscribe registers the subscription, ws unsubscribe pops it.  The caller
\* drops its future.
SendReturn(c) ==
    /\ calls[c].pc = "await"
    /\ Done(fut[c])
    /\ calls' = [calls EXCEPT ![c] = Finished]
    /\ fut' = [fut EXCEPT ![c] = NoFuture]
    /\ LET i == calls[c].id
           op == calls[c].op
           ok == Outcome(c) = "ok"
       IN  /\ subscriptions' =
                 IF ok /\ op = "subscribe" THEN subscriptions \cup {i}
                 ELSE IF ok /\ op = "unsubscribe" THEN PopSubscription(subscriptions, i)
                 ELSE subscriptions
           /\ iter' = IF ok /\ op = "subscribe"
                      THEN [iter EXCEPT ![i] = IF client = "tcp" THEN "idle" ELSE "callback"]
                      ELSE iter
           /\ unsub_done' = IF ok /\ op = "unsubscribe" THEN unsub_done \cup {i}
                            ELSE unsub_done
           /\ last' = NoMsg
           /\ raised' = Reply(c)
    /\ UNCHANGED << client, cfg, sock, closed, recv_task, request_id, pending, queue,
                    write_lock, closePc, sub_closed, reconnect_attempts, delay, protoVars, deliverVars, cacheVars >>

\* The caller's task is cancelled (a local timeout) at one of the suspension
\* points of _send or of tcp's unsubscribe.  Waiting for the lock: the caller
\* leaves without the lock.  In the write: the caller leaves the write section
\* and releases the lock.  In "await future": asyncio cancels the awaited
\* future.  In every case the entry stays in self._pending.
CancelCall(c) ==
    /\ calls[c].pc \in {"lock", "drain", "await"}
    /\ calls[c].pc = "await" => ~Done(fut[c])
    /\ fut' = IF calls[c].pc = "await" THEN [fut EXCEPT ![c] = Cancel(@)] ELSE fut
    /\ write_lock' = ReleaseLock(c)
    /\ calls' = [calls EXCEPT ![c] = Finished]
    /\ last' = NoMsg /\ raised' = NoRaise
    /\ UNCHANGED << client, cfg, sock, closed, recv_task, request_id, pending,
                    subscriptions, queue, closePc, sub_closed, iter,
                    reconnect_attempts, unsub_done, delay, protoVars, deliverVars, cacheVars >>

(***************************************************************************)
(* The receive loop.  One action is one iteration: the read completes and  *)
(* the message is dispatched (neither dispatcher suspends: the queue is    *)
(* unbounded and the ws callback is a plain call).                         *)
(***************************************************************************)
\* A lookup by send order instead: the key of the earliest call still pending.
OldestPendingKey(m) ==
    IF \E i \in Ids : pending[i] # 0
    THEN CHOOSE i \in Ids : pending[i] # 0 /\ \A j \in Ids : pending[j] # 0 => pending[i] <= pending[j]
    ELSE m.id

\* The key a response is looked up by in self._pending: msg.get("id").
PendingKey(m) == m.id

\* SquirrelDBTcp._dispatch_message: where a message goes.
TcpRoute(m) ==
    IF m.type = "change" /\ m.id \in subscriptions THEN "queue"
    ELSE IF pending[PendingKey(m)] # 0 THEN "future"
    ELSE "drop"

\* SquirrelDB._handle_message: where a message goes.
WsRoute(m) ==
    IF m.type = "change"
    THEN IF m.id \in subscriptions THEN "queue" ELSE "drop"
    ELSE IF pending[PendingKey(m)] # 0 THEN "future"
    ELSE "drop"

Route(m) == IF client = "tcp" THEN TcpRoute(m) ELSE WsRoute(m)

\* asyncio.Queue.put on an unbounded queue: the item goes to the right end
\* of the deque, from whose left end get takes.
QueuePutFront(q, e) == << e >> \o q

QueuePut(q, e) == Append(q, e)

\* The effect of dispatching m along route r: put on the queue (tcp; the ws
\* client calls the callback, which changes nothing in the client), or pop
\* the pending entry and complete its future, or nothing.
Dispatch(m, r) ==
    /\ queue' = IF r = "queue" /\ client = "tcp"
                THEN [queue EXCEPT ![m.id] = QueuePut(@, m)] ELSE queue
    /\ pending' = IF r = "future" THEN [pending EXCEPT ![PendingKey(m)] = 0] ELSE pending
    /\ fut' = IF r = "future"
              THEN [fut EXCEPT ![pending[PendingKey(m)]] = SetResult(@, m)]
              ELSE fut

\* The subscribe request with id i has its success response (the receive loop
\* completed its future) and its caller has not resumed yet: subscribe() is
\* still at "await self._send" and has not registered the subscription.
Answered(i) ==
    \E c \in Calls :
        /\ calls[c].op = "subscribe" /\ calls[c].id = i /\ calls[c].pc = "await"
        /\ fut[c].st = "result" /\ fut[c].msg.type = "result"

\* A loop that treats a response nobody waits for as a protocol error and ends.
ReceiveStrict(m) ==
    /\ recv_task = "running"
    /\ sock = "open"
    /\ Route(m) = "queue" => Len(queue[m.id]) < MaxQueue
    /\ Dispatch(m, Route(m))
    /\ last' = IF Route(m) = "drop" /\ (m.type # "change" \/ m.id \in Held \/ Answered(m.id))
               THEN m ELSE NoMsg
    /\ raised' = NoRaise
    /\ recv_task' = IF Route(m) = "drop" /\ m.type # "change" THEN "ended" ELSE recv_task
    /\ UNCHANGED << client, cfg, sock, closed, request_id, subscriptions,
                    calls, write_lock, closePc, sub_closed, iter, reconnect_attempts, unsub_done, delay,
                    protoVars, deliverVars, cacheVars >>

Receive(m) ==
    /\ recv_task = "running"
    /\ sock = "open"
    /\ Route(m) = "queue" => Len(queue[m.id]) < MaxQueue
    /\ Dispatch(m, Route(m))
    /\ last' = IF Route(m) = "drop" /\ (m.type # "change" \/ m.id \in Held \/ Answered(m.id))
               THEN m ELSE NoMsg
    /\ raised' = NoRaise
    /\ UNCHANGED << client, cfg, sock, closed, recv_task, request_id, subscriptions,
                    calls, write_lock, closePc, sub_closed, iter, reconnect_attempts, unsub_done, delay,
                    protoVars, deliverVars, cacheVars >>

\* tcp: the server closes the socket; readexactly raises IncompleteReadError,
\* which the loop passes over, and the task ends.
ReadEof ==
    /\ client = "tcp"
    /\ recv_task = "running"
    /\ sock = "open"
    /\ sock' = "eof"
    /\ recv_task' = "ended"
    /\ last' = NoMsg /\ raised' = NoRaise
    /\ UNCHANGED << client, cfg, closed, request_id, pending, subscriptions, queue,
                    calls, fut, write_lock, closePc, sub_closed, iter,
                    reconnect_attempts, unsub_done, delay, protoVars, deliverVars, cacheVars >>

\* tcp: any other exception in the loop: the read fails ("reset": the socket is
\* dead) or a frame is rejected ("bad_frame": unknown type or encoding byte,
\* length over MAX_MESSAGE_SIZE, undecodable body; the socket stays open).
\* The handler rejects every pending future unless self._closed.
ReadError(kind) ==
    /\ client = "tcp"
    /\ recv_task = "running"
    /\ sock = "open"
    /\ sock' = IF kind = "reset" THEN "reset" ELSE "open"
    /\ recv_task' = "ended"
    /\ fut' = IF ~closed THEN RejectAll ELSE fut
    /\ pending' = IF ~closed THEN EmptyPending ELSE pending
    /\ last' = NoMsg /\ raised' = NoRaise
    /\ UNCHANGED << client, cfg, closed, request_id, subscriptions, queue, calls,
                    write_lock, closePc, sub_closed, iter, reconnect_attempts, unsub_done, delay,
                    protoVars, deliverVars, cacheVars >>

\* 2 ** n
RECURSIVE Pow2(_)
Pow2(n) == IF n <= 0 THEN 1 ELSE 2 * Pow2(n - 1)

\* delay = self._reconnect_delay * (2 ** (self._reconnect_attempts - 1))
Backoff(attempts) == ReconnectDelay * Pow2(attempts - 1)

\* ws: the connection ends (the iteration over self._ws stops or raises) and the
\* loop's finally clause runs _handle_disconnect up to its sleep.
WsDisconnect ==
    /\ client = "ws"
    /\ recv_task = "running"
    /\ sock = "open"
    /\ sock' = "lost"
    /\ IF closed
       THEN /\ recv_task' = "ended"
            /\ UNCHANGED << fut, pending, reconnect_attempts, delay >>
       ELSE /\ fut' = RejectAll
            /\ pending' = EmptyPending
            /\ IF cfg.reconnect /\ reconnect_attempts < cfg.max_reconnect_attempts
               THEN /\ reconnect_attempts' = reconnect_attempts + 1
                    /\ delay' = Backoff(reconnect_attempts + 1)
                    /\ recv_task' = "backoff"
               ELSE /\ recv_task' = "ended"
                    /\ UNCHANGED << reconnect_attempts, delay >>
    /\ last' = NoMsg /\ raised' = NoRaise
    /\ UNCHANGED << client, cfg, closed, request_id, subscriptions, queue, calls,
                    write_lock, closePc, sub_closed, iter, unsub_done, protoVars, deliverVars, cacheVars >>

\* ws: asyncio.sleep(delay) returns and _handle_disconnect calls _connect.
WsBackoffDone ==
    /\ recv_task = "backoff"
    /\ recv_task' = "connecting"
    /\ last' = NoMsg /\ raised' = NoRaise
    /\ UNCHANGED << client, cfg, sock, closed, request_id, pending, subscriptions,
                    queue, calls, fut, write_lock, closePc, sub_closed, iter,
                    reconnect_attempts, unsub_done, delay, protoVars, deliverVars, cacheVars >>

\* A reconnection that registers a subscribe request of its own for every
\* subscription it finds.
WsReconnectResubscribing(ok) ==
    /\ recv_task = "connecting"
    /\ sock' = IF ok THEN "open" ELSE sock
    /\ reconnect_attempts' = IF ok THEN 0 ELSE reconnect_attempts
    /\ recv_task' = IF ok THEN "running" ELSE "ended"
    /\ delay' = 0
    /\ pending' = IF ok THEN [i \in Ids |-> IF i \in subscriptions THEN 1 ELSE pending[i]]
                ELSE pending
    /\ last' = NoMsg /\ raised' = NoRaise
    /\ UNCHANGED << client, cfg, closed, request_id, subscriptions, queue,
                    calls, fut, write_lock, closePc, sub_closed, iter, unsub_done,
                    protoVars, deliverVars, cacheVars >>

\* ws: the _connect of _handle_disconnect ends.  Success stores the new
\* connection, resets the attempt counter and starts a new receive loop; an
\* exception is passed over, _handle_disconnect returns and the task ends.
WsReconnect(ok) ==
    /\ recv_task = "connecting"
    /\ sock' = IF ok THEN "open" ELSE sock
    /\ reconnect_attempts' = IF ok THEN 0 ELSE reconnect_attempts
    /\ recv_task' = IF ok THEN "running" ELSE "ended"
    /\ delay' = 0
    /\ last' = NoMsg /\ raised' = NoRaise
    /\ UNCHANGED << client, cfg, closed, request_id, pending, subscriptions, queue,
                    calls, fut, write_lock, closePc, sub_closed, iter, unsub_done,
                    protoVars, deliverVars, cacheVars >>

(***************************************************************************)
(* close(), up to its first suspension point.                              *)
(* tcp: set _closed, clear the subscriptions, cancel and clear the pending *)
(* futures, cancel the receive task and await it; if the task is not       *)
(* running nothing suspends before the writer is closed.                   *)
(* ws: set _closed, clear the subscriptions, cancel the receive task (its  *)
(* _handle_disconnect returns at once since _closed) and close the socket; *)
(* the awaits of wait_closed and of the ws closing handshake change        *)
(* nothing in the client and are part of this step.                        *)
(***************************************************************************)
\* A cancellation that reaches the task only while it is reading.
TaskLiveWhileReading == recv_task = "running"

TaskLive == recv_task \in {"running", "backoff", "connecting"}

CloseBegin ==
    /\ closePc = "idle"
    /\ closed' = TRUE
    /\ subscriptions' = {}
    /\ fut' = IF client = "tcp" THEN CancelAll ELSE fut
    /\ pending' = IF client = "tcp" THEN EmptyPending ELSE pending
    /\ recv_task' = IF TaskLive THEN "cancelled" ELSE recv_task
    /\ delay' = 0
    /\ IF client = "tcp" /\ TaskLive
       THEN closePc' = "await" /\ UNCHANGED sock
       ELSE /\ sock' = IF sock = "none" THEN "none" ELSE "closed"
            /\ closePc' = "done"
    /\ last' = NoMsg /\ raised' = NoRaise
    /\ UNCHANGED << client, cfg, request_id, queue, calls, write_lock, sub_closed,
                    iter, reconnect_attempts, unsub_done, protoVars, deliverVars, cacheVars >>

\* tcp: close() resumes once the cancelled receive task has ended, and closes
\* the writer.
CloseFinish ==
    /\ closePc = "await"
    /\ sock' = IF sock = "none" THEN "none" ELSE "closed"
    /\ closePc' = "done"
    /\ last' = NoMsg /\ raised' = NoRaise
    /\ UNCHANGED << client, cfg, closed, recv_task, request_id, pending, subscriptions,
                    queue, calls, fut, write_lock, sub_closed, iter,
                    reconnect_attempts, unsub_done, delay, protoVars, deliverVars, cacheVars >>

(***************************************************************************)
(* Subscription.__anext__ (tcp).                                           *)
(***************************************************************************)
\* The caller asks for the next event: StopAsyncIteration if the Subscription
\* is closed, else queue.get(), which returns an event at once or suspends.
AnextCall(s) ==
    /\ iter[s] = "idle"
    /\ IF s \in sub_closed
       THEN iter' = [iter EXCEPT ![s] = "stopped"] /\ UNCHANGED queue
       ELSE IF queue[s] # << >>
            THEN queue' = [queue EXCEPT ![s] = Tail(@)] /\ UNCHANGED iter
            ELSE iter' = [iter EXCEPT ![s] = "waiting"] /\ UNCHANGED queue
    /\ last' = NoMsg /\ raised' = NoRaise
    /\ UNCHANGED << client, cfg, sock, closed, recv_task, request_id, pending,
                    subscriptions, calls, fut, write_lock, closePc, sub_closed,
                    reconnect_attempts, unsub_done, delay, protoVars, deliverVars, cacheVars >>

\* A suspended queue.get() returns the event that was put.
AnextWake(s) ==
    /\ iter[s] = "waiting"
    /\ queue[s] # << >>
    /\ queue' = [queue EXCEPT ![s] = Tail(@)]
    /\ iter' = [iter EXCEPT ![s] = "idle"]
    /\ last' = NoMsg /\ raised' = NoRaise
    /\ UNCHANGED << client, cfg, sock, closed, recv_task, request_id, pending,
                    subscriptions, calls, fut, write_lock, closePc, sub_closed,
                    reconnect_attempts, unsub_done, delay, protoVars, deliverVars, cacheVars >>

\* The iterating caller's task is cancelled while queue.get() is suspended:
\* __anext__ turns the CancelledError into StopAsyncIteration.
AnextCancel(s) ==
    /\ iter[s] = "waiting"
    /\ iter' = [iter EXCEPT ![s] = "stopped"]
    /\ last' = NoMsg /\ raised' = NoRaise
    /\ UNCHANGED << client, cfg, sock, closed, recv_task, request_id, pending,
                    subscriptions, queue, calls, fut, write_lock, closePc, sub_closed,
                    reconnect_attempts, unsub_done, delay, protoVars, deliverVars, cacheVars >>

Next ==
    \/ \E o \in {"refused", "handshake", "ok"} : Connect(o)
    \/ \E c \in Calls, op \in {"request", "subscribe"} : CallRequest(c, op)
    \/ \E c \in Calls, s \in Ids : TcpUnsubscribe(c, s)
    \/ \E c \in Calls, s \in Ids : WsUnsubscribe(c, s)
    \/ \E c \in Calls : SendAcquire(c)
    \/ \E c \in Calls : SendDrain(c)
    \/ \E c \in Calls : SendReturn(c)
    \/ \E c \in Calls : CancelCall(c)
    \/ \E m \in Messages : Receive(m)
    \/ ReadEof
    \/ \E k \in {"reset", "bad_frame"} : ReadError(k)
    \/ WsDisconnect
    \/ WsBackoffDone
    \/ \E ok \in BOOLEAN : WsReconnect(ok)
    \/ CloseBegin
    \/ CloseFinish
    \/ \E s \in Ids : AnextCall(s)
    \/ \E s \in Ids : AnextWake(s)
    \/ \E s \in Ids : AnextCancel(s)

Spec == Init /\ [][Next]_vars

(***************************************************************************)
(* Fairness: the event loop resumes every coroutine of the client that is  *)
(* ready to run (a lock waiter once the lock is free, a finished write, a  *)
(* caller whose future is done, close() once the cancelled task has ended, *)
(* an elapsed sleep, a connection attempt that ends, a queue.get() with an *)
(* event to take).  Nothing is assumed of the server or of the callers.    *)
(***************************************************************************)
Fairness ==
    /\ \A c \in Calls : WF_vars(SendAcquire(c))
    /\ \A c \in Calls : WF_vars(SendDrain(c))
    /\ \A c \in Calls : WF_vars(SendReturn(c))
    /\ WF_vars(CloseFinish)
    /\ WF_vars(WsBackoffDone)
    /\ WF_vars(\E ok \in BOOLEAN : WsReconnect(ok))
    /\ \A s \in Ids : WF_vars(AnextWake(s))

FairSpec == Spec /\ Fairness

(***************************************************************************)
(* Message bodies: msgpack.packb / msgpack.unpackb and json.dumps /        *)
(* json.loads as encode_message and decode_message call them.  A Python    *)
(* value is a record of its type and its content: an int holds its decimal *)
(* text (Python's ints have no width), a str its code points, a bool 0 or  *)
(* 1, a list its items, a dict its items in insertion order.               *)
(***************************************************************************)
PyInt(text) == [t |-> "int", v |-> text]
PyBool(b) == [t |-> "bool", v |-> << IF b THEN 1 ELSE 0 >>]
PyStr(s) == [t |-> "str", v |-> s]
PyList(items) == [t |-> "list", v |-> items]
PyDict(items) == [t |-> "dict", v |-> items]
Item(k, v) == [k |-> k, v |-> v]

\* Decimal digits (values 0..9, most significant first, no leading zero
\* except for zero itself) of a magnitude of any size.
RECURSIVE Strip(_)
Strip(ds) == IF Len(ds) > 1 /\ Head(ds) = 0 THEN Strip(Tail(ds)) ELSE ds

RECURSIVE NatDigits(_)
NatDigits(n) == IF n < 10 THEN << n >> ELSE NatDigits(n \div 10) \o << n % 10 >>

\* int.to_bytes(..., "big") of minimal length (no bytes for zero), by long
\* division of the digits by 256: DivStep gives quotient and remainder.
RECURSIVE ToBytes(_)
ToBytes(ds) ==
    LET RECURSIVE DivStep(_, _, _)
        DivStep(i, rem, q) ==
            IF i > Len(ds) THEN [q |-> Strip(q), r |-> rem]
            ELSE LET x == (rem * 10) + ds[i]
                 IN  DivStep(i + 1, x % 256, Append(q, x \div 256))
    IN  IF ds = << 0 >> THEN << >>
        ELSE LET d == DivStep(1, 0, << >>) IN ToBytes(d.q) \o << d.r >>

\* ds * mult + carry, digit by digit from the right.
RECURSIVE MulStep(_, _, _, _, _)
MulStep(ds, i, mult, carry, out) ==
    IF i = 0 THEN Strip(NatDigits(carry) \o out)
    ELSE LET x == (ds[i] * mult) + carry
         IN  MulStep(ds, i - 1, mult, x \div 10, << x % 10 >> \o out)

\* int.from_bytes(bs, "big")
FromBytes(bs) ==
    LET RECURSIVE Acc(_, _)
        Acc(rest, acc) ==
            IF rest = << >> THEN acc
            ELSE Acc(Tail(rest), MulStep(acc, Len(acc), 256, Head(rest), << >>))
    IN  Acc(bs, << 0 >>)

\* The decimal text of an int: str(n).
DigitChars(ds) == << >> \o [i \in 1..Len(ds) |-> 48 + ds[i]]

\* Every bit inverted.
Complement(bs) == << >> \o [i \in 1..Len(bs) |-> 255 - bs[i]]

\* msgpack's Packer on an int: the shortest of fixint, uint8..uint64,
\* int8..int64; OverflowError outside -2^63 .. 2^64-1.  A negative int n is
\* the complement of -n - 1 in the width that holds it with the sign bit clear.
PackInt(text) ==
    LET Negative == text # << >> /\ text[1] = 45
        digits == IF Negative THEN Tail(text) ELSE text
        Magnitude == << >> \o [i \in 1..Len(digits) |-> digits[i] - 48]
        RECURSIVE Dec(_)
        Dec(ds) ==
            LET n == Len(ds)
            IN  IF ds[n] > 0 THEN Strip(SubSeq(ds, 1, n - 1) \o << ds[n] - 1 >>)
                ELSE Strip(Dec(SubSeq(ds, 1, n - 1)) \o << 9 >>)
        Pad(bs, w) ==
            << >> \o [i \in 1..w |-> IF i <= w - Len(bs) THEN 0 ELSE bs[i - (w - Len(bs))]]
        FitsSigned(bs, w) == Len(bs) < w \/ (Len(bs) = w /\ bs[1] < 128)
    IN  IF ~Negative
        THEN LET B == ToBytes(Magnitude)
             IN  IF Len(B) = 0 THEN Return(<< 0 >>)
                 ELSE IF Len(B) = 1 /\ B[1] < 128 THEN Return(B)
                 ELSE IF Len(B) = 1 THEN Return(<< 204 >> \o B)
                 ELSE IF Len(B) <= 2 THEN Return(<< 205 >> \o Pad(B, 2))
                 ELSE IF Len(B) <= 4 THEN Return(<< 206 >> \o Pad(B, 4))
                 ELSE IF Len(B) <= 8 THEN Return(<< 207 >> \o Pad(B, 8))
                 ELSE Raise("OverflowError", "Integer value out of range")
        ELSE LET M == ToBytes(Dec(Magnitude))
             IN  IF Len(M) = 0 THEN Return(<< 255 >>)
                 ELSE IF Len(M) = 1 /\ M[1] < 32 THEN Return(<< 255 - M[1] >>)
                 ELSE IF FitsSigned(M, 1) THEN Return(<< 208 >> \o Complement(Pad(M, 1)))
                 ELSE IF FitsSigned(M, 2) THEN Return(<< 209 >> \o Complement(Pad(M, 2)))
                 ELSE IF FitsSigned(M, 4) THEN Return(<< 210 >> \o Complement(Pad(M, 4)))
                 ELSE IF FitsSigned(M, 8) THEN Return(<< 211 >> \o Complement(Pad(M, 8)))
                 ELSE Raise("OverflowError", "Integer value out of range")

\* bytes.decode("utf-8") of sequences of one, two and three bytes; bytes
\* below 128 are their own decoding.
Utf8Decode(bs) ==
    LET RECURSIVE Seq3(_)
        Seq3(b) ==
            IF b = << >> THEN << >>
            ELSE IF b[1] < 128 THEN << b[1] >> \o Seq3(Tail(b))
            ELSE IF b[1] < 224
            THEN << ((b[1] - 192) * 64) + (b[2] - 128) >> \o Seq3(SubSeq(b, 3, Len(b)))
            ELSE << ((b[1] - 224) * 4096) + ((b[2] - 128) * 64) + (b[3] - 128) >>
                   \o Seq3(SubSeq(b, 4, Len(b)))
    IN  IF \A i \in DOMAIN bs : bs[i] < 128 THEN bs ELSE Seq3(bs)

\* msgpack.packb(obj, use_bin_type=True): the bytes, or the exception of the
\* first element that cannot be packed.  The header of a str, an array or a
\* map of n elements is the short form, then the forms with an 8-bit (str
\* only), 16-bit and 32-bit count; a map's body is its keys and values in turn.
RECURSIVE packb(_), PackList(_)
packb(obj) ==
    LET StrHeader(n) ==
            IF n <= 31 THEN << 160 + n >>
            ELSE IF n <= 255 THEN << 217, n >>
            ELSE IF n <= MaxUShort THEN << 218 >> \o PackH(n)
            ELSE << 219 >> \o PackI(n)
        ArrayHeader(n) ==
            IF n <= 15 THEN << 144 + n >>
            ELSE IF n <= MaxUShort THEN << 220 >> \o PackH(n)
            ELSE << 221 >> \o PackI(n)
        MapHeader(n) ==
            IF n <= 15 THEN << 128 + n >>
            ELSE IF n <= MaxUShort THEN << 222 >> \o PackH(n)
            ELSE << 223 >> \o PackI(n)
        KeysAndValues(items) ==
            << >> \o [i \in 1..(2 * Len(items)) |->
                        IF i % 2 = 1 THEN items[(i + 1) \div 2].k ELSE items[i \div 2].v]
    IN  CASE obj.t = "bool" -> Return(<< 194 + obj.v[1] >>)
          [] obj.t = "int" -> PackInt(obj.v)
          [] obj.t = "str" -> LET b == Utf8(obj.v) IN Return(StrHeader(Len(b)) \o b)
          [] obj.t = "list" ->
                LET body == PackList(obj.v)
                IN  IF body.ok THEN Return(ArrayHeader(Len(obj.v)) \o body.val) ELSE body
          [] obj.t = "dict" ->
                LET body == PackList(KeysAndValues(obj.v))
                IN  IF body.ok THEN Return(MapHeader(Len(obj.v)) \o body.val) ELSE body

PackList(items) ==
    IF items = << >> THEN Return(<< >>)
    ELSE LET h == packb(Head(items))
             r == PackList(Tail(items))
         IN  IF ~h.ok THEN h ELSE IF ~r.ok THEN r ELSE Return(h.val \o r.val)

\* One object read from the front of bs: the object and the bytes after it.
Read(v, rest) == [ok |-> TRUE, val |-> v, rest |-> rest]
Drop(bs, n) == SubSeq(bs, n + 1, Len(bs))

\* msgpack's Unpacker on one object: by its type byte, a fixint, a bool, a
\* number of 1, 2, 4 or 8 bytes, or a str, array or map whose count is in the
\* type byte or in the 1, 2 or 4 bytes after it.
RECURSIVE Unpack(_), UnpackList(_, _)
Unpack(bs) ==
    LET Incomplete == Raise("ValueError", "Unpack failed: incomplete input")
        Number(rest, w, signed) ==
            IF Len(rest) < w THEN Incomplete
            ELSE LET b == SubSeq(rest, 1, w)
                     m == FromBytes(Complement(b))
                 IN  Read(IF signed /\ b[1] >= 128
                          THEN PyInt(<< 45 >> \o DigitChars(MulStep(m, Len(m), 1, 1, << >>)))
                          ELSE PyInt(DigitChars(FromBytes(b))),
                          Drop(rest, w))
        Body(kind, body, n) ==
            CASE kind = "str" ->
                    IF Len(body) < n THEN Incomplete
                    ELSE Read(PyStr(Utf8Decode(SubSeq(body, 1, n))), Drop(body, n))
              [] kind = "array" ->
                    LET r == UnpackList(body, n)
                    IN  IF r.ok THEN Read(PyList(r.val), r.rest) ELSE r
              [] kind = "map" ->
                    LET r == UnpackList(body, 2 * n)
                    IN  IF r.ok
                        THEN Read(PyDict(<< >> \o [i \in 1..n |->
                                              Item(r.val[(2 * i) - 1], r.val[2 * i])]),
                                  r.rest)
                        ELSE r
        Counted(kind, rest, w) ==
            IF Len(rest) < w THEN Incomplete
            ELSE Body(kind, Drop(rest, w),
                      IF w = 1 THEN rest[1]
                      ELSE IF w = 2 THEN (rest[1] * 256) + rest[2]
                      ELSE UnpackI(SubSeq(rest, 1, 4)))
    IN  IF bs = << >> THEN Incomplete
        ELSE LET b == bs[1]
                 rest == Tail(bs)
             IN  CASE b < 128 -> Read(PyInt(DigitChars(NatDigits(b))), rest)
                   [] b \in 128..143 -> Body("map", rest, b - 128)
                   [] b \in 144..159 -> Body("array", rest, b - 144)
                   [] b \in 160..191 -> Body("str", rest, b - 160)
                   [] b = 194 -> Read(PyBool(FALSE), rest)
                   [] b = 195 -> Read(PyBool(TRUE), rest)
                   [] b \in 204..207 -> Number(rest, Pow2(b - 204), FALSE)
                   [] b \in 208..211 -> Number(rest, Pow2(b - 208), TRUE)
                   [] b \in 217..219 -> Counted("str", rest, Pow2(b - 217))
                   [] b \in 220..221 -> Counted("array", rest, 2 * Pow2(b - 220))
                   [] b \in 222..223 -> Counted("map", rest, 2 * Pow2(b - 222))
                   [] b >= 224 -> Read(PyInt(<< 45 >> \o DigitChars(NatDigits(256 - b))), rest)
                   [] OTHER -> Raise("ValueError", "a format no message of the model uses")

UnpackList(bs, n) ==
    IF n = 0 THEN Read(<< >>, bs)
    ELSE LET h == Unpack(bs)
         IN  IF ~h.ok THEN h
             ELSE LET r == UnpackList(h.rest, n - 1)
                  IN  IF ~r.ok THEN r ELSE Read(<< h.val >> \o r.val, r.rest)

\* msgpack.unpackb(data, raw=False): one object, and nothing after it.
unpackb(data) ==
    LET r == Unpack(data)
    IN  IF ~r.ok THEN r
        ELSE IF r.rest # << >> THEN Raise("ExtraData", "unpack(b) received extra data.")
        ELSE Return(r.val)

\* One hexadecimal digit, lower case, as its character code.
HexDigit(n) == IF n < 10 THEN 48 + n ELSE 87 + n

\* json's encoder on a str with ensure_ascii: the quotes, and each code point
\* of the basic plane as itself, a two-character escape or \uXXXX.  A string
\* with nothing to escape is its own escape.
Quoted(s) ==
    LET Hex4(c) == << HexDigit(c \div 4096), HexDigit((c \div 256) % 16),
                      HexDigit((c \div 16) % 16), HexDigit(c % 16) >>
        EscapeChar(c) ==
            CASE c = 34 -> << 92, 34 >>
              [] c = 92 -> << 92, 92 >>
              [] c = 10 -> << 92, 110 >>
              [] c = 13 -> << 92, 114 >>
              [] c = 9 -> << 92, 116 >>
              [] c = 8 -> << 92, 98 >>
              [] c = 12 -> << 92, 102 >>
              [] c \in 32..126 /\ c # 34 /\ c # 92 -> << c >>
              [] OTHER -> << 92, 117 >> \o Hex4(c)
        RECURSIVE EscapeSeq(_)
        EscapeSeq(x) == IF x = << >> THEN << >> ELSE EscapeChar(Head(x)) \o EscapeSeq(Tail(x))
        Escape ==
            IF \A i \in DOMAIN s : s[i] \in 32..126 /\ s[i] # 34 /\ s[i] # 92 THEN s
            ELSE EscapeSeq(s)
    IN  << 34 >> \o Escape \o << 34 >>

\* json.dumps(obj) with the default separators ", " and ": ".
RECURSIVE dumps(_), DumpsList(_), DumpsItems(_)
dumps(obj) ==
    CASE obj.t = "bool" -> IF obj.v[1] = 1 THEN << 116, 114, 117, 101 >>
                           ELSE << 102, 97, 108, 115, 101 >>
      [] obj.t = "int" -> obj.v
      [] obj.t = "str" -> Quoted(obj.v)
      [] obj.t = "list" -> << 91 >> \o DumpsList(obj.v) \o << 93 >>
      [] obj.t = "dict" -> << 123 >> \o DumpsItems(obj.v) \o << 125 >>

DumpsList(items) ==
    IF items = << >> THEN << >>
    ELSE dumps(Head(items))
           \o (IF Len(items) > 1 THEN << 44, 32 >> ELSE << >>) \o DumpsList(Tail(items))

DumpsItems(items) ==
    IF items = << >> THEN << >>
    ELSE Quoted(Head(items).k.v) \o << 58, 32 >> \o dumps(Head(items).v)
           \o (IF Len(items) > 1 THEN << 44, 32 >> ELSE << >>) \o DumpsItems(Tail(items))

\* json's decoder.
JSONDecodeError(msg) == Raise("JSONDecodeError", msg)

RECURSIVE SkipSpace(_)
SkipSpace(s) == IF s # << >> /\ s[1] \in {32, 9, 10, 13} THEN SkipSpace(Tail(s)) ELSE s

\* The characters of a string up to its closing quote; s follows the opening
\* one.  PlainRun is the number of characters before the first quote,
\* backslash or control character of s (all of s if it has none).
RECURSIVE ParseChars(_, _)
ParseChars(s, acc) ==
    LET IsHex(c) == c \in 48..57 \/ c \in 97..102 \/ c \in 65..70
        HexValue(c) == IF c \in 48..57 THEN c - 48 ELSE IF c \in 97..102 THEN c - 87 ELSE c - 55
        stops == {i \in DOMAIN s : s[i] = 34 \/ s[i] = 92 \/ s[i] < 32}
        PlainRun ==
            IF stops = {} THEN Len(s) ELSE (CHOOSE i \in stops : \A j \in stops : i <= j) - 1
    IN  IF s = << >> THEN JSONDecodeError("Unterminated string")
        ELSE IF s[1] = 34 THEN Read(PyStr(acc), Tail(s))
        ELSE IF s[1] < 32 THEN JSONDecodeError("Invalid control character")
        ELSE IF s[1] # 92
        THEN ParseChars(Drop(s, PlainRun), acc \o SubSeq(s, 1, PlainRun))
        ELSE IF Len(s) < 2 THEN JSONDecodeError("Unterminated string")
        ELSE LET e == s[2]
             IN  CASE e = 34 -> ParseChars(Drop(s, 2), Append(acc, 34))
                   [] e = 92 -> ParseChars(Drop(s, 2), Append(acc, 92))
                   [] e = 47 -> ParseChars(Drop(s, 2), Append(acc, 47))
                   [] e = 98 -> ParseChars(Drop(s, 2), Append(acc, 8))
                   [] e = 102 -> ParseChars(Drop(s, 2), Append(acc, 12))
                   [] e = 110 -> ParseChars(Drop(s, 2), Append(acc, 10))
                   [] e = 114 -> ParseChars(Drop(s, 2), Append(acc, 13))
                   [] e = 116 -> ParseChars(Drop(s, 2), Append(acc, 9))
                   [] e = 117 /\ Len(s) >= 6 /\ \A i \in 3..6 : IsHex(s[i]) ->
                         ParseChars(Drop(s, 6),
                                    Append(acc, (HexValue(s[3]) * 4096) + (HexValue(s[4]) * 256)
                                                  + (HexValue(s[5]) * 16) + HexValue(s[6])))
                   [] OTHER -> JSONDecodeError("Invalid escape")

\* One value: a string, an object, an array, true, false, or an integer (an
\* optional minus, then 0 or a run of digits not starting with 0).
RECURSIVE ParseValue(_), ParseArray(_, _), ParseObject(_, _)
ParseValue(text) ==
    LET s == SkipSpace(text)
        StartsWith(p) == Len(s) >= Len(p) /\ SubSeq(s, 1, Len(p)) = p
        RECURSIVE DigitRun(_)
        DigitRun(x) == IF x # << >> /\ x[1] \in 48..57 THEN 1 + DigitRun(Tail(x)) ELSE 0
        ParseNumber ==
            LET neg == s[1] = 45
                body == IF neg THEN Tail(s) ELSE s
                n == IF body # << >> /\ body[1] = 48 THEN 1 ELSE DigitRun(body)
                digits == SubSeq(body, 1, n)
                rest == Drop(body, n)
            IN  IF n = 0 THEN JSONDecodeError("Expecting value")
                ELSE IF rest # << >> /\ rest[1] \in {46, 101, 69}
                THEN Raise("ValueError", "a number no message of the model uses")
                ELSE Read(PyInt(IF neg /\ digits # << 48 >> THEN << 45 >> \o digits ELSE digits),
                          rest)
    IN  IF s = << >> THEN JSONDecodeError("Expecting value")
        ELSE CASE s[1] = 34 -> ParseChars(Tail(s), << >>)
               [] s[1] = 123 ->
                     LET b == SkipSpace(Tail(s))
                     IN  IF b # << >> /\ b[1] = 125 THEN Read(PyDict(<< >>), Tail(b))
                         ELSE ParseObject(b, << >>)
               [] s[1] = 91 ->
                     LET b == SkipSpace(Tail(s))
                     IN  IF b # << >> /\ b[1] = 93 THEN Read(PyList(<< >>), Tail(b))
                         ELSE ParseArray(b, << >>)
               [] StartsWith(<< 116, 114, 117, 101 >>) -> Read(PyBool(TRUE), Drop(s, 4))
               [] StartsWith(<< 102, 97, 108, 115, 101 >>) -> Read(PyBool(FALSE), Drop(s, 5))
               [] s[1] = 45 \/ s[1] \in 48..57 -> ParseNumber
               [] OTHER -> JSONDecodeError("Expecting value")

\* The items of an array after "[" or after a comma.
ParseArray(s, acc) ==
    LET v == ParseValue(s)
    IN  IF ~v.ok THEN v
        ELSE LET r == SkipSpace(v.rest)
             IN  IF r = << >> THEN JSONDecodeError("Expecting ',' delimiter")
                 ELSE IF r[1] = 93 THEN Read(PyList(Append(acc, v.val)), Tail(r))
                 ELSE IF r[1] = 44 THEN ParseArray(Tail(r), Append(acc, v.val))
                 ELSE JSONDecodeError("Expecting ',' delimiter")

\* The pairs of an object after "{" or after a comma.
ParseObject(text, acc) ==
    LET s == SkipSpace(text)
    IN  IF s = << >> \/ s[1] # 34
        THEN JSONDecodeError("Expecting property name enclosed in double quotes")
        ELSE LET k == ParseChars(Tail(s), << >>)
             IN  IF ~k.ok THEN k
                 ELSE LET c == SkipSpace(k.rest)
                      IN  IF c = << >> \/ c[1] # 58 THEN JSONDecodeError("Expecting ':' delimiter")
                          ELSE LET v == ParseValue(Tail(c))
                               IN  IF ~v.ok THEN v
                                   ELSE LET r == SkipSpace(v.rest)
                                            items == Append(acc, Item(k.val, v.val))
                                        IN  IF r = << >> THEN JSONDecodeError("Expecting ',' delimiter")
                                            ELSE IF r[1] = 125 THEN Read(PyDict(items), Tail(r))
                                            ELSE IF r[1] = 44 THEN ParseObject(Tail(r), items)
                                            ELSE JSONDecodeError("Expecting ',' delimiter")

\* json.loads(text): one value, and only white space after it.
loads(text) ==
    LET r == ParseValue(text)
    IN  IF ~r.ok THEN r
        ELSE IF SkipSpace(r.rest) # << >> THEN JSONDecodeError("Extra data")
        ELSE Return(r.val)

\* encode_message(msg, encoding) for any message: msgpack.packb(msg,
\* use_bin_type=True), else json.dumps(msg).encode("utf-8").
encode_message(msg, enc) ==
    IF enc = MESSAGEPACK THEN packb(msg) ELSE Return(Utf8(dumps(msg)))

\* decode_message(data, encoding): msgpack.unpackb(data, raw=False), else
\* json.loads(data.decode("utf-8")).
decode_message(data, enc) ==
    IF enc = MESSAGEPACK THEN unpackb(data) ELSE loads(Utf8Decode(data))

\* The ping request {"type": "ping", "id": "1"}.
PingMessage ==
    PyDict(<< Item(PyStr(<< 116, 121, 112, 101 >>), PyStr(<< 112, 105, 110, 103 >>)),
              Item(PyStr(<< 105, 100 >>), PyStr(<< 49 >>)) >>)

(***************************************************************************)
(* The handshake of SquirrelDBTcp._connect and the requests that follow    *)
(* it, for every construction of the client and every 19-byte response.   *)
(***************************************************************************)
AllFlags == [messagepack : BOOLEAN, json_fallback : BOOLEAN]

\* n bytes, or n code points, all of value b.
Fill(n, b) == << >> \o [i \in 1..n |-> b]

\* b"\x00" * 16 and bytes(range(1, 17))
ZeroSession == Fill(16, 0)
CountSession == << >> \o [i \in 1..16 |-> i]

\* The 19 bytes readexactly(19) can return: status, version, flags, session id.
Responses19 ==
    { << st, ver, fb >> \o sid :
        st \in {0, 1, 2, 3}, ver \in {1, 2}, fb \in {0, 1, 2, 3},
        sid \in {ZeroSession, CountSession} }

HandshakeInit ==
    /\ ConnInit /\ client = "tcp"
    /\ DeliverIdle /\ CacheIdle
    /\ auth_token \in { << >>, << 97, 98, 99 >> }
    /\ flags \in AllFlags
    /\ encoding = InitialEncoding(flags)
    /\ hs = HsIdle
    /\ wire = << >>
    /\ ret = NoRet

\* VersionMismatchError with its two arguments exchanged.
VersionMismatchSwapped(server_version, client_version) ==
    [type |-> "VersionMismatchError",
     server_version |-> client_version, client_version |-> server_version]

\* VersionMismatchError(server_version, client_version)
VersionMismatchError(server_version, client_version) ==
    [type |-> "VersionMismatchError",
     server_version |-> server_version, client_version |-> client_version]

\* An exception that carries no versions.
Error(type) == [type |-> type, server_version |-> 0, client_version |-> 0]

\* _connect: the connection is open; the handshake is written.
HsOpen ==
    /\ hs.stage = "init"
    /\ wire' = build_handshake(auth_token, flags).val
    /\ hs' = [hs EXCEPT !.stage = "sent"]
    /\ UNCHANGED << connVars, deliverVars, cacheVars, auth_token, flags, encoding, ret >>

\* _connect: the 19 bytes of the response are read and parsed; the status
\* decides between the typed errors and adopting session id and encoding.
HsResponse(data) ==
    /\ hs.stage = "sent"
    /\ LET r == parse_handshake_response(data)
       IN  IF ~r.ok
           THEN /\ hs' = [hs EXCEPT !.stage = "failed", !.response = data,
                                    !.error = Error(r.exc)]
                /\ UNCHANGED encoding
           ELSE IF r.val.status = VERSION_MISMATCH
           THEN /\ hs' = [hs EXCEPT !.stage = "failed", !.response = data,
                             !.error = VersionMismatchError(r.val.version, PROTOCOL_VERSION)]
                /\ UNCHANGED encoding
           ELSE IF r.val.status = AUTH_FAILED
           THEN /\ hs' = [hs EXCEPT !.stage = "failed", !.response = data,
                                    !.error = Error("AuthenticationError")]
                /\ UNCHANGED encoding
           ELSE IF r.val.status # SUCCESS
           THEN /\ hs' = [hs EXCEPT !.stage = "failed", !.response = data,
                                    !.error = Error("HandshakeError")]
                /\ UNCHANGED encoding
           ELSE /\ hs' = [hs EXCEPT !.stage = "connected", !.response = data,
                                    !.session_id = r.val.session_id]
                /\ encoding' = IF r.val.flags.messagepack THEN MESSAGEPACK ELSE JSON
    /\ UNCHANGED << connVars, deliverVars, cacheVars, auth_token, flags, wire, ret >>

\* _connect: the server closes the socket before 19 bytes have come;
\* readexactly raises IncompleteReadError.
HsEof ==
    /\ hs.stage = "sent"
    /\ hs' = [hs EXCEPT !.stage = "failed", !.error = Error("IncompleteReadError")]
    /\ UNCHANGED << connVars, deliverVars, cacheVars, auth_token, flags, encoding, wire, ret >>

\* _send on the connected client: the message is encoded with self._encoding
\* and framed as a REQUEST.
HsRequest ==
    /\ hs.stage = "connected"
    /\ hs.sent < MaxFrames
    /\ wire' = build_frame(REQUEST, encoding, encode_message(PingMessage, encoding).val)
    /\ hs' = [hs EXCEPT !.sent = @ + 1]
    /\ UNCHANGED << connVars, deliverVars, cacheVars, auth_token, flags, encoding, ret >>

\* close() on a client whose _connect has ended: close() assigns neither
\* _session_id nor _encoding.
HsClose ==
    /\ hs.stage \in {"connected", "failed"}
    /\ CloseBegin

\* Optional[str]: None, or a string as its sequence of characters.
None == [none |-> TRUE, str |-> << >>]
Str(s) == [none |-> FALSE, str |-> s]

\* str(uuid.UUID(bytes=b)): the 32 hexadecimal digits of the bytes, two per
\* byte, in groups of 8-4-4-4-12.
UuidStr(b) ==
    LET h == << >> \o [i \in 1..(2 * Len(b)) |->
                         IF i % 2 = 1 THEN HexDigit(b[(i + 1) \div 2] \div 16)
                         ELSE HexDigit(b[i \div 2] % 16)]
    IN  SubSeq(h, 1, 8) \o << 45 >> \o SubSeq(h, 9, 12) \o << 45 >> \o SubSeq(h, 13, 16)
          \o << 45 >> \o SubSeq(h, 17, 20) \o << 45 >> \o SubSeq(h, 21, 32)

\* The session_id property: None while self._session_id is None (or empty),
\* else the UUID string of the 16 bytes.
session_id == IF hs.session_id # << >> THEN Str(UuidStr(hs.session_id)) ELSE None

HandshakeNext ==
    \/ HsOpen
    \/ \E data \in Responses19 : HsResponse(data)
    \/ HsEof
    \/ HsRequest
    \/ HsClose

HandshakeSpec == HandshakeInit /\ [][HandshakeNext]_vars

(***************************************************************************)
(* The functions of protocol.py, each applied once to an input drawn from  *)
(* a bounded set.                                                          *)
(***************************************************************************)
\* Tokens: empty, "abc", one two-byte character, characters of one, two and
\* three bytes, and 'a' repeated up to and just over what ">H" can count.
Tokens ==
    { << >>, << 97, 98, 99 >>, << 233 >>, << 116, 233, 8364 >>,
      Fill(255, 97), Fill(256, 97), Fill(MaxUShort, 97), Fill(MaxUShort + 1, 97) }

\* Responses of 19 and 20 bytes, with known and unknown status bytes, flag
\* bytes with high bits set, and their truncations.
FullResponses ==
    { << st, ver, fb >> \o sid \o extra :
        st \in {0, 1, 2, 3, 255}, ver \in {1, 2}, fb \in {0, 1, 2, 3, 255},
        sid \in {ZeroSession, CountSession}, extra \in { << >>, << 9 >> } }

ResponseData ==
    FullResponses \cup
    { SubSeq(<< st, 1, 3 >> \o CountSession, 1, n) : st \in {0, 3}, n \in {0, 2, 18} }

Payloads ==
    { Fill(n, b) : n \in {0, 1, 12, 253, 254, MaxPayload - 1, MaxPayload}, b \in {0, 255} }

CodecInit ==
    /\ ConnInit /\ client = "tcp"
    /\ DeliverIdle /\ CacheIdle
    /\ ProtoIdle

ApplyFlags(f) ==
    /\ ret = NoRet
    /\ ret' = [fn |-> "flags", arg |-> f,
               val |-> [byte |-> ToByte(f), back |-> FromByte(ToByte(f))]]
    /\ UNCHANGED << connVars, deliverVars, cacheVars, auth_token, flags, encoding, hs, wire >>

ApplyBuildHandshake(token, f) ==
    /\ ret = NoRet
    /\ ret' = [fn |-> "build_handshake", arg |-> [auth_token |-> token, flags |-> f],
               val |-> build_handshake(token, f)]
    /\ UNCHANGED << connVars, deliverVars, cacheVars, auth_token, flags, encoding, hs, wire >>

ApplyParseHandshakeResponse(data) ==
    /\ ret = NoRet
    /\ ret' = [fn |-> "parse_handshake_response", arg |-> data,
               val |-> parse_handshake_response(data)]
    /\ UNCHANGED << connVars, deliverVars, cacheVars, auth_token, flags, encoding, hs, wire >>

\* build_frame, then parse_frame_header on the first 6 bytes of the frame.
ApplyBuildFrame(msg_type, enc, payload) ==
    /\ ret = NoRet
    /\ LET frame == build_frame(msg_type, enc, payload)
       IN  ret' = [fn |-> "build_frame",
                   arg |-> [msg_type |-> msg_type, encoding |-> enc, payload |-> payload],
                   val |-> [frame |-> frame,
                            header |-> parse_frame_header(SubSeq(frame, 1, 6))]]
    /\ UNCHANGED << connVars, deliverVars, cacheVars, auth_token, flags, encoding, hs, wire >>

\* MAX_MESSAGE_SIZE = 16 * 1024 * 1024
MAX_MESSAGE_SIZE == 16 * 1024 * 1024

\* A loop that compares the payload length, not the length field, with the limit.
receive_loop_header_payload_limit(header) ==
    LET length == UnpackI(SubSeq(header, 1, 4))
    IN  IF header[5] \notin MessageType
        THEN Raise("ValueError", "not a valid MessageType")
        ELSE IF header[6] \notin Encoding
        THEN Raise("ValueError", "not a valid Encoding")
        ELSE IF length - 2 > MAX_MESSAGE_SIZE
        THEN Raise("SquirrelDBError", "Message too large")
        ELSE Return([payload_len |-> length - 2, msg_type |-> header[5],
                     encoding |-> header[6]])

\* One iteration of _receive_loop from the 6 header bytes to the read of the
\* payload: the length is unpacked, MessageType(header[4]) and
\* Encoding(header[5]) are built (ValueError for a byte that is no member),
\* then the length is compared with MAX_MESSAGE_SIZE; only then is the payload
\* of length - 2 bytes asked of the reader.
receive_loop_header(header) ==
    LET length == UnpackI(SubSeq(header, 1, 4))
    IN  IF header[5] \notin MessageType
        THEN Raise("ValueError", "not a valid MessageType")
        ELSE IF header[6] \notin Encoding
        THEN Raise("ValueError", "not a valid Encoding")
        ELSE IF length > MAX_MESSAGE_SIZE
        THEN Raise("SquirrelDBError", "Message too large")
        ELSE Return([payload_len |-> length - 2, msg_type |-> header[5],
                     encoding |-> header[6]])

\* Headers the server can send: lengths below the 2 bytes the length field
\* always counts (type and encoding), lengths around MAX_MESSAGE_SIZE and up to
\* the largest whose first byte is below 128, type and encoding bytes inside
\* and outside their enums.
Headers ==
    { PackI(n) \o << t, e >> :
        n \in {0, 1, 2, 14, MAX_MESSAGE_SIZE - 1, MAX_MESSAGE_SIZE, MAX_MESSAGE_SIZE + 1,
               2 * MAX_MESSAGE_SIZE, 2147483647},
        t \in {0, 1, 2, 3, 4}, e \in {0, 1, 2, 3} }

ApplyReceiveHeader(header) ==
    /\ ret = NoRet
    /\ ret' = [fn |-> "_receive_loop", arg |-> header, val |-> receive_loop_header(header)]
    /\ UNCHANGED << connVars, deliverVars, cacheVars, auth_token, flags, encoding, hs, wire >>

ApplyParseFrameHeader(header) ==
    /\ ret = NoRet
    /\ ret' = [fn |-> "parse_frame_header", arg |-> header, val |-> parse_frame_header(header)]
    /\ UNCHANGED << connVars, deliverVars, cacheVars, auth_token, flags, encoding, hs, wire >>

\* The decimal texts of ints at the edges of msgpack's formats: fixint, uint8,
\* uint16, uint32, uint64, negative fixint, int8 .. int64, and one past each.
IntTexts ==
    { << 48 >>,
      << 51, 48 >>,
      << 49, 50, 55 >>,
      << 49, 50, 56 >>,
      << 50, 53, 53 >>,
      << 50, 53, 54 >>,
      << 54, 53, 53, 51, 53 >>,
      << 54, 53, 53, 51, 54 >>,
      << 52, 50, 57, 52, 57, 54, 55, 50, 57, 53 >>,
      << 52, 50, 57, 52, 57, 54, 55, 50, 57, 54 >>,
      << 57, 50, 50, 51, 51, 55, 50, 48, 51, 54, 56, 53, 52, 55, 55, 53, 56, 48, 55 >>,
      << 57, 50, 50, 51, 51, 55, 50, 48, 51, 54, 56, 53, 52, 55, 55, 53, 56, 48, 56 >>,
      << 49, 56, 52, 52, 54, 55, 52, 52, 48, 55, 51, 55, 48, 57, 53, 53, 49, 54, 49, 53 >>,
      << 49, 56, 52, 52, 54, 55, 52, 52, 48, 55, 51, 55, 48, 57, 53, 53, 49, 54, 49, 54 >>,
      << 45, 49 >>,
      << 45, 51, 50 >>,
      << 45, 51, 51 >>,
      << 45, 49, 50, 56 >>,
      << 45, 49, 50, 57 >>,
      << 45, 51, 50, 55, 54, 56 >>,
      << 45, 51, 50, 55, 54, 57 >>,
      << 45, 50, 49, 52, 55, 52, 56, 51, 54, 52, 56 >>,
      << 45, 50, 49, 52, 55, 52, 56, 51, 54, 52, 57 >>,
      << 45, 57, 50, 50, 51, 51, 55, 50, 48, 51, 54, 56, 53, 52, 55, 55, 53, 56, 48, 56 >>,
      << 45, 57, 50, 50, 51, 51, 55, 50, 48, 51, 54, 56, 53, 52, 55, 55, 53, 56, 48, 57 >> }

\* {"type": "insert", "id": "req-1", "collection": "users",
\*  "data": {"name": "Alice", "age": 30, "active": True}}
InsertMessage ==
    PyDict(<< Item(PyStr(<< 116, 121, 112, 101 >>), PyStr(<< 105, 110, 115, 101, 114, 116 >>)),
              Item(PyStr(<< 105, 100 >>), PyStr(<< 114, 101, 113, 45, 49 >>)),
              Item(PyStr(<< 99, 111, 108, 108, 101, 99, 116, 105, 111, 110 >>),
                   PyStr(<< 117, 115, 101, 114, 115 >>)),
              Item(PyStr(<< 100, 97, 116, 97 >>),
                   PyDict(<< Item(PyStr(<< 110, 97, 109, 101 >>), PyStr(<< 65, 108, 105, 99, 101 >>)),
                             Item(PyStr(<< 97, 103, 101 >>), PyInt(<< 51, 48 >>)),
                             Item(PyStr(<< 97, 99, 116, 105, 118, 101 >>), PyBool(TRUE)) >>)) >>)

\* {"type": "result", "id": "456", "data": [1, 2, 3]}
ResultMessage ==
    PyDict(<< Item(PyStr(<< 116, 121, 112, 101 >>), PyStr(<< 114, 101, 115, 117, 108, 116 >>)),
              Item(PyStr(<< 105, 100 >>), PyStr(<< 52, 53, 54 >>)),
              Item(PyStr(<< 100, 97, 116, 97 >>),
                   PyList(<< PyInt(<< 49 >>), PyInt(<< 50 >>), PyInt(<< 51 >>) >>)) >>)

\* {"type": "insert", "id": "1", "data": data}
DataMessage(data) ==
    PyDict(<< Item(PyStr(<< 116, 121, 112, 101 >>), PyStr(<< 105, 110, 115, 101, 114, 116 >>)),
              Item(PyStr(<< 105, 100 >>), PyStr(<< 49 >>)),
              Item(PyStr(<< 100, 97, 116, 97 >>), data) >>)

\* Values for "data": every int of IntTexts under a key, strings with a
\* quote, a backslash, characters of two and three bytes and a newline, of
\* 31, 32, 255 and 256 characters, lists of 15 and 16 items, empty and
\* nested lists and dicts, both booleans.
DataValues ==
    { PyDict(<< Item(PyStr(<< 110 >>), PyInt(text)) >>) : text \in IntTexts }
    \cup { PyStr(<< 65, 108, 34, 92, 233, 8364, 10 >>), PyStr(<< >>) }
    \cup { PyStr(Fill(n, 97)) : n \in {31, 32, 255, 256} }
    \cup { PyList(Fill(n, PyBool(FALSE))) : n \in {0, 15, 16} }
    \cup { PyDict(<< >>),
            PyList(<< PyList(<< PyBool(TRUE), PyDict(<< Item(PyStr(<< 107 >>), PyList(<< >>)) >>) >>),
                      PyStr(<< 120 >>), PyInt(<< 45, 55 >>) >>) }

Bodies == { PingMessage, InsertMessage, ResultMessage } \cup { DataMessage(d) : d \in DataValues }

\* encode_message, then decode_message on its bytes.
ApplyRoundTrip(msg, enc) ==
    /\ ret = NoRet
    /\ LET encoded == encode_message(msg, enc)
       IN  ret' = [fn |-> "roundtrip", arg |-> [msg |-> msg, encoding |-> enc],
                   val |-> IF encoded.ok THEN decode_message(encoded.val, enc) ELSE encoded]
    /\ UNCHANGED << connVars, deliverVars, cacheVars, auth_token, flags, encoding, hs, wire >>

CodecNext ==
    \/ \E f \in AllFlags : ApplyFlags(f)
    \/ \E token \in Tokens, f \in AllFlags : ApplyBuildHandshake(token, f)
    \/ \E data \in ResponseData : ApplyParseHandshakeResponse(data)
    \/ \E t \in MessageType, e \in Encoding, payload \in Payloads : ApplyBuildFrame(t, e, payload)
    \/ \E header \in Headers : ApplyReceiveHeader(header)
    \/ \E header \in Headers : ApplyParseFrameHeader(header)
    \/ \E msg \in Bodies, enc \in Encoding : ApplyRoundTrip(msg, enc)

CodecSpec == CodecInit /\ [][CodecNext]_vars

(***************************************************************************)
(* Properties.                                                             *)
(***************************************************************************)
\* A call that is inside _send (or inside tcp's unsubscribe).
InFlight(c) == calls[c].pc \in {"lock", "drain", "await"}

\* C1: for any requests pending together and any order of arrival of the
\* responses, the result a _send call is about to return is the response
\* whose id is the id of its own request.
C1_OwnResponse ==
    \A c \in Calls :
        (InFlight(c) /\ fut[c].st = "result") => fut[c].msg.id = calls[c].id

\* C1 witness: two requests are awaited, and the response to the second has
\* arrived while the first, sent earlier, is still waiting.
C1_OutOfOrder ==
    /\ calls[1].pc = "await" /\ fut[1].st = "waiting"
    /\ calls[2].pc = "await" /\ fut[2].st = "result"
    /\ fut[2].msg.id = calls[2].id

\* The receive loop stops because the connection was lost (not by close()).
LossStep == recv_task = "running" /\ recv_task' \in {"ended", "backoff"}

\* C2: when the connection is lost with requests pending, every pending
\* future completes with the connection error, the pending map is emptied,
\* and no later step completes a rejected future with a value.
C2_RejectAllOnLoss ==
    [][ /\ LossStep =>
            /\ \A c \in Calls : fut[c].st = "waiting" => fut'[c].st = "exception"
            /\ pending' = EmptyPending
        /\ \A c \in Calls : fut[c].st = "exception" => fut'[c].st # "result" ]_vars

\* The connection has ended: a read error or the server closing the socket.
ConnectionOver == sock \in {"eof", "reset", "lost"}

\* C3: once its response has arrived, the connection has ended or close() has
\* been called, a caller suspended in _send eventually gets a result or an
\* error.
C3_SendTerminates ==
    \A c \in Calls :
        (InFlight(c) /\ (Done(fut[c]) \/ ConnectionOver \/ closePc # "idle"))
            ~> ~InFlight(c)

\* C4: no future is ever completed more than once, under every interleaving
\* of responses, disconnect handling, caller cancellation and close().
C4_AtMostOnce == \A c \in Calls : fut[c].n <= 1

\* C4 witness: the tcp loop, still running, has popped the pending entry of a
\* future its caller had cancelled, and left the future as it was.
C4_LateResponse ==
    /\ client = "tcp" /\ recv_task = "running" /\ ~closed
    /\ \E c \in Calls :
          fut[c] = [st |-> "cancelled", msg |-> NoMsg, n |-> 1] /\ c \notin PendingCalls

\* Call c starts an operation that goes through _send.
SendStarts(c) ==
    /\ calls[c].op = "none" /\ calls'[c].op # "none"
    /\ client = "tcp" => request_id' # request_id

\* _send raised at once: nothing registered, nothing written.
RaisedAtOnce(c) ==
    /\ calls'[c] = Finished
    /\ pending' = pending /\ fut' = fut /\ write_lock' = write_lock

\* C5: while the tcp client has no active socket (never connected, or close()
\* has returned), _send raises 'Not connected' at once, registering and
\* writing nothing.
C5_NotConnected ==
    [][ \A c \in Calls :
          (client = "tcp" /\ (sock = "none" \/ closePc = "done") /\ SendStarts(c))
              => RaisedAtOnce(c) ]_vars

\* The ws client's terminal failed state: the connection is lost and the
\* supervisor has stopped with reconnection disabled or exhausted.
Failed ==
    /\ client = "ws" /\ ~closed /\ sock = "lost" /\ recv_task = "ended"
    /\ ~cfg.reconnect \/ reconnect_attempts >= cfg.max_reconnect_attempts

\* C6: in the terminal failed state every _send fails at once with 'Not
\* connected', registering no pending request.
C6_FailedIsTerminal ==
    [][ \A c \in Calls : (Failed /\ SendStarts(c)) => RaisedAtOnce(c) ]_vars

\* close() is called.
CloseStep == closePc = "idle" /\ closePc' # "idle"

\* C7: close() with requests pending cancels every pending future, leaves
\* the pending map empty and stops the receive loop; once close() has
\* returned the socket is closed.  For both clients.
C7_CloseCancelsPending ==
    /\ [][ CloseStep =>
             /\ \A c \in Calls : fut[c].st = "waiting" => fut'[c].st = "cancelled"
             /\ pending' = EmptyPending
             /\ recv_task' \notin {"running", "backoff", "connecting"} ]_vars
    /\ [](closePc = "done" => sock \in {"none", "closed"})

\* C8: once unsubscribe(s) has returned, a notification for s is dropped:
\* it finds no destination, the queue of s does not grow, and the receive
\* loop keeps running.
C8_DroppedAfterUnsubscribe ==
    [][ \A s \in unsub_done :
          /\ Len(queue'[s]) <= Len(queue[s])
          /\ Receive([id |-> s, type |-> "change"]) =>
                (last' = [id |-> s, type |-> "change"] /\ recv_task' = "running") ]_vars

\* C8 witness: the running loop has just dropped a notification for a
\* subscription whose unsubscribe had returned.
C8_NotificationDropped ==
    /\ last.type = "change" /\ last.id \in unsub_done
    /\ recv_task = "running"

\* C9: an __anext__ that is suspended when its subscription is unsubscribed
\* or the client is closed, or is issued afterwards, eventually ends with
\* StopAsyncIteration.
C9_IteratorStops ==
    \A s \in Ids :
        (iter[s] = "waiting" /\ (s \in sub_closed \/ closed)) ~> (iter[s] = "stopped")

\* C10: after an unexpected disconnect with reconnection enabled the ws
\* client stops attempting only after a success or after
\* max_reconnect_attempts consecutive attempts, and never makes more.
C10_RetriesUntilLimit ==
    /\ reconnect_attempts <= cfg.max_reconnect_attempts
    /\ (client = "ws" /\ cfg.reconnect /\ ~closed /\ recv_task = "ended")
          => reconnect_attempts = cfg.max_reconnect_attempts

\* C11: the delay waited before the k-th consecutive reconnection attempt,
\* k = 1 .. max_reconnect_attempts, is reconnect_delay * 2^(k-1): the first
\* wait after a disconnect is computed by that formula, and every attempt that
\* fails short of the limit is followed by a wait twice as long as the one
\* before it.
C11_DoublingDelays ==
    [][ /\ (recv_task = "running" /\ recv_task' = "backoff")
              => delay' = ReconnectDelay * Pow2(reconnect_attempts' - 1)
        /\ (recv_task = "connecting" /\ recv_task' \notin {"connecting", "running", "cancelled"}
              /\ reconnect_attempts < cfg.max_reconnect_attempts)
              => (recv_task' = "backoff" /\ delay' = 2 * delay) ]_vars

\* The calls inside the write section (between write and the end of drain).
Writing == {c \in Calls : calls[c].pc = "drain"}

C13_CancelIsLocal ==
    [][ /\ calls' # calls =>
            \A c \in Calls : (calls'[c] = Finished /\ CancelCall(c)) =>
                /\ write_lock' # c
                /\ pending' = pending /\ recv_task' = recv_task
                /\ \A d \in Calls \ {c} : fut'[d] = fut[d] /\ calls'[d] = calls[d]
        /\ write_lock' # 0 => calls'[write_lock'].pc = "drain"
        /\ \A i \in Ids : (pending[i] # 0 /\ calls[pending[i]] = Finished) =>
              \A m \in {n \in Messages : n.id = i} :
                  (Route(m) = "future" /\ Receive(m)) =>
                      /\ recv_task' = "running" /\ calls' = calls /\ pending'[i] = 0
                      /\ \A d \in Calls \ {pending[i]} : fut'[d] = fut[d] ]_vars

\* C13 witness: the first request was abandoned during its write, the lock is
\* free, its response has since arrived, and the second request has been
\* resolved by its own response.
C13_AbandonedThenServed ==
    /\ client = "tcp" /\ recv_task = "running" /\ write_lock = 0
    /\ calls[1] = Finished /\ fut[1].st = "result" /\ pending = EmptyPending
    /\ calls[2].pc = "await" /\ fut[2].st = "result" /\ fut[2].msg.id = calls[2].id


\* C14: the handshake status decides how connect ends: status
\* VERSION_MISMATCH fails with VersionMismatchError carrying the version byte
\* of the response and the client's PROTOCOL_VERSION, status AUTH_FAILED fails
\* with AuthenticationError, and connect succeeds exactly when the status is
\* SUCCESS.
C14_TypedHandshakeErrors ==
    (hs.stage \in {"connected", "failed"} /\ hs.response # << >>) =>
        /\ hs.response[1] = 1 =>
              /\ hs.stage = "failed"
              /\ hs.error.type = "VersionMismatchError"
              /\ hs.error.server_version = hs.response[2]
              /\ hs.error.client_version = 1
        /\ hs.response[1] = 2 =>
              /\ hs.stage = "failed"
              /\ hs.error.type = "AuthenticationError"
        /\ hs.stage = "connected" <=> hs.response[1] = 0

\* The server answers VERSION_MISMATCH with version byte 2.
C14_ServerVersionTwo ==
    /\ hs.stage = "failed"
    /\ hs.response[1] = 1 /\ hs.response[2] = 2
    /\ hs.error.type = "VersionMismatchError"
    /\ hs.error.server_version = 2 /\ hs.error.client_version = 1

\* C15: once the handshake has succeeded, the session's encoding, and the
\* encoding byte of every request frame sent, is MESSAGEPACK if and only if
\* both the flags the client was built with and the flags of the server's
\* response have messagepack set, and JSON otherwise.
C15_EncodingNegotiated ==
    hs.stage = "connected" =>
        LET both == flags.messagepack /\ FromByte(hs.response[3]).messagepack
            agreed == IF both THEN MESSAGEPACK ELSE JSON
        IN  /\ encoding = agreed
            /\ hs.sent > 0 => wire[6] = agreed

\* C16: parse_frame_header on the first 6 bytes of build_frame(msg_type,
\* encoding, payload) returns (len(payload), msg_type, encoding), the
\* big-endian length field of the frame is len(payload) + 2, and the bytes
\* after the 6-byte header are the payload.
C16_FrameRoundTrip ==
    ret.fn = "build_frame" =>
        LET frame == ret.val.frame
            header == ret.val.header
            n == Len(ret.arg.payload)
        IN  /\ header.ok
            /\ header.val.payload_length = n
            /\ header.val.msg_type = ret.arg.msg_type
            /\ header.val.encoding = ret.arg.encoding
            /\ Len(frame) = n + 6
            /\ ((frame[1] * 256 + frame[2]) * 256 + frame[3]) * 256 + frame[4] = n + 2
            /\ \A i \in 1..4 : frame[i] \in 0..255
            /\ SubSeq(frame, 7, Len(frame)) = ret.arg.payload

\* A NOTIFICATION frame of the longest payload, whose length needs three bytes.
C16_LongPayload ==
    /\ ret.fn = "build_frame"
    /\ ret.arg.msg_type = NOTIFICATION /\ ret.arg.encoding = JSON
    /\ Len(ret.arg.payload) = MaxPayload
    /\ ret.val.frame[2] > 0
    /\ ret.val.header.ok

\* C17: from_byte(to_byte(flags)) is flags for each of the four flags, and
\* to_byte sets bit 0 exactly for messagepack, bit 1 exactly for
\* json_fallback, and no other bit.
C17_FlagsRoundTrip ==
    ret.fn = "flags" =>
        /\ ret.val.back = ret.arg
        /\ ret.val.byte \in 0..3
        /\ (ret.val.byte % 2 = 1) <=> ret.arg.messagepack
        /\ ((ret.val.byte \div 2) % 2 = 1) <=> ret.arg.json_fallback

\* messagepack alone is byte 1.
C17_MessagepackOnly ==
    /\ ret.fn = "flags"
    /\ ret.arg.messagepack /\ ~ret.arg.json_fallback
    /\ ret.val.byte = 1
    /\ ret.val.back = ret.arg

\* The layout of a handshake packet for a token and flags: "SQRL", the
\* version, the flags byte, two bytes counting in big-endian the bytes that
\* follow, and those bytes are the token in UTF-8.
HandshakeLayout(packet, token, f) ==
    /\ Len(packet) >= 8
    /\ SubSeq(packet, 1, 4) = << 83, 81, 82, 76 >>
    /\ packet[5] = 1
    /\ packet[6] = (IF f.messagepack THEN 1 ELSE 0) + (IF f.json_fallback THEN 2 ELSE 0)
    /\ packet[7] \in 0..255 /\ packet[8] \in 0..255
    /\ packet[7] * 256 + packet[8] = Len(packet) - 8
    /\ SubSeq(packet, 9, Len(packet)) = Utf8(token)
    /\ token = << >> => packet[7] = 0 /\ packet[8] = 0 /\ Len(packet) = 8
    /\ token = << 97, 98, 99 >> =>
          packet[7] = 0 /\ packet[8] = 3 /\ SubSeq(packet, 9, Len(packet)) = << 97, 98, 99 >>

\* C18 (as stated): for every auth token and flags build_handshake returns a
\* packet of the handshake layout, whose length field counts the token bytes
\* that follow it.
C18_HandshakeForEveryToken ==
    ret.fn = "build_handshake" =>
        /\ ret.val.ok
        /\ HandshakeLayout(ret.val.val, ret.arg.auth_token, ret.arg.flags)

\* C18 (amended): for every flags and every auth token whose UTF-8 encoding
\* has at most 65535 bytes, build_handshake returns a packet of the handshake
\* layout; for a longer token it raises struct.error and returns nothing.
C18_HandshakeLayout ==
    ret.fn = "build_handshake" =>
        IF Len(Utf8(ret.arg.auth_token)) <= 65535
        THEN /\ ret.val.ok
             /\ HandshakeLayout(ret.val.val, ret.arg.auth_token, ret.arg.flags)
        ELSE /\ ~ret.val.ok
             /\ ret.val.exc = "struct.error"

\* A token of characters of one, two and three bytes: 3 characters, 6 bytes.
C18_MultiByteToken ==
    /\ ret.fn = "build_handshake"
    /\ ret.arg.auth_token = << 116, 233, 8364 >>
    /\ ret.val.ok
    /\ SubSeq(ret.val.val, 7, Len(ret.val.val)) = << 0, 6, 116, 195, 169, 226, 130, 172 >>

\* The response [0x00, 0x01, 0x03] followed by 16 zero bytes.
SuccessResponse(data) ==
    /\ Len(data) = 19
    /\ data[1] = 0 /\ data[2] = 1 /\ data[3] = 3
    /\ \A i \in 4..19 : data[i] = 0

\* C19: for a response of at least 19 bytes whose status byte is 0, 1 or 2,
\* parse_handshake_response returns status = byte 0, version = byte 1, flags
\* = bits 0 and 1 of byte 2, session id = bytes 3..18; and [0, 1, 3] followed
\* by 16 zero bytes gives (SUCCESS, 1, both flags true, 16 zero bytes).
C19_ParseHandshakeResponse ==
    (ret.fn = "parse_handshake_response" /\ Len(ret.arg) >= 19 /\ ret.arg[1] \in {0, 1, 2}) =>
        /\ ret.val.ok
        /\ ret.val.val.status = ret.arg[1]
        /\ ret.val.val.version = ret.arg[2]
        /\ ret.val.val.flags.messagepack <=> (ret.arg[3] % 2 = 1)
        /\ ret.val.val.flags.json_fallback <=> ((ret.arg[3] \div 2) % 2 = 1)
        /\ Len(ret.val.val.session_id) = 16
        /\ \A i \in 1..16 : ret.val.val.session_id[i] = ret.arg[i + 3]
        /\ SuccessResponse(ret.arg) =>
              /\ ret.val.val.status = SUCCESS
              /\ ret.val.val.version = 1
              /\ ret.val.val.flags.messagepack /\ ret.val.val.flags.json_fallback
              /\ \A i \in 1..16 : ret.val.val.session_id[i] = 0

\* The response [0, 1, 3] + 16 zero bytes has been parsed.
C19_SuccessExample ==
    /\ ret.fn = "parse_handshake_response"
    /\ SuccessResponse(ret.arg)
    /\ ret.val.ok
    /\ ret.val.val.status = SUCCESS
    /\ ret.val.val.version = 1

\* C20: parse_handshake_response returns nothing for a malformed response: one
\* shorter than 19 bytes raises the too-short error, and one of 19 bytes or
\* more whose status byte is not 0, 1 or 2 raises the error of an unknown
\* status.
C20_MalformedRejected ==
    ret.fn = "parse_handshake_response" =>
        /\ Len(ret.arg) < 19 =>
              /\ ~ret.val.ok
              /\ ret.val.exc = "ValueError"
              /\ ret.val.msg = "Handshake response too short"
        /\ (Len(ret.arg) >= 19 /\ ret.arg[1] \notin {0, 1, 2}) =>
              /\ ~ret.val.ok
              /\ ret.val.exc = "ValueError"
              /\ ret.val.msg = "not a valid HandshakeStatus"

\* A complete response with status byte 3 has been refused.
C20_UnknownStatus ==
    /\ ret.fn = "parse_handshake_response"
    /\ Len(ret.arg) = 19 /\ ret.arg[1] = 3
    /\ ~ret.val.ok

\* C21: the ids of one SquirrelDBTcp client are "1", "2", "3", ...: the counter
\* never decreases, every request or subscription that starts gets the
\* counter's value plus one, which is greater than every id in use (of a call
\* in flight, a pending entry or a subscription, registered or unsubscribed),
\* and no two requests in flight share an id.
C21_FreshIds ==
    [][ client = "tcp" =>
          /\ request_id' >= request_id
          /\ \A c \in Calls :
                (calls[c].op = "none" /\ calls'[c].op # "none" /\ calls'[c].op # "unsubscribe") =>
                    /\ request_id' = request_id + 1
                    /\ calls'[c].op # "done" =>
                          /\ calls'[c].id = request_id'
                          /\ pending'[request_id'] = c
                    /\ \A d \in Calls : calls[d].id < request_id'
                    /\ \A i \in Ids :
                          (pending[i] # 0 \/ i \in subscriptions \/ iter[i] # "none"
                             \/ i \in sub_closed \/ i \in unsub_done) => i < request_id'
          /\ \A c, d \in Calls :
                (c # d /\ calls'[c].op \in {"request", "subscribe"}
                       /\ calls'[d].op \in {"request", "subscribe"})
                    => calls'[c].id # calls'[d].id ]_vars

\* C21 witness: the subscription made first holds id 1 and the request made
\* after it is pending with id 2.
C21_SecondId ==
    /\ client = "tcp" /\ request_id = 2
    /\ 1 \in subscriptions /\ iter[1] # "none"
    /\ calls[2].op = "request" /\ calls[2].id = 2 /\ calls[2].pc = "await"
    /\ pending[2] = 2

C24_ChangeNeverResolves ==
    [][ \A m \in Messages :
          Receive(m) =>
             /\ m.type = "change" => fut' = fut /\ pending' = pending
             /\ m.type # "change" => queue' = queue ]_vars

\* C25: the step in which the loop reads a response whose id matches no
\* pending request (the step records it in last) changes nothing: the
\* pending map, the subscriptions, the queues and every future and call are
\* as before, nothing is raised, the socket stays open and the receive loop
\* stays running, ready for the next frame.
C25_UnmatchedResponseIsNoOp ==
    [][ last'.type \in {"result", "error"} =>
          /\ pending[last'.id] = 0
          /\ recv_task = "running" /\ sock = "open"
          /\ pending' = pending /\ fut' = fut /\ calls' = calls
          /\ subscriptions' = subscriptions /\ queue' = queue /\ iter' = iter
          /\ raised' = NoRaise
          /\ sock' = "open" /\ recv_task' = "running" ]_vars

\* C25 witness: a response with id 1 has just been dropped while request 2
\* is pending and a subscription is registered; the loop is still running.
C25_StaleResponseDropped ==
    /\ last.type \in {"result", "error"} /\ last.id = 1
    /\ pending[1] = 0 /\ pending[2] = 2 /\ fut[2].st = "waiting"
    /\ subscriptions # {}
    /\ recv_task = "running" /\ sock = "open"

\* C26: once close() has been called the client stays closed, no step opens
\* a connection and no step starts a receive loop, close() during the
\* backoff delay or during the reconnection attempt included.
C26_NoReconnectAfterClose ==
    [][ closed =>
          /\ closed'
          /\ sock # "open" => sock' # "open"
          /\ recv_task # "running" => recv_task' # "running"
          /\ recv_task' \notin {"backoff", "connecting"} ]_vars

\* C26 witness: close() came while disconnect handling was in its backoff
\* delay or its reconnection attempt: an attempt is counted, the task is
\* cancelled and the connection is not open.
C26_ClosedWhileReconnecting ==
    /\ client = "ws" /\ closed
    /\ reconnect_attempts >= 1
    /\ recv_task = "cancelled"
    /\ sock # "open"

C29_NoResubscribe ==
    [][ /\ (recv_task = "connecting" /\ recv_task' = "running" /\ sock' = "open") =>
             /\ calls' = calls /\ fut' = fut /\ pending' = pending
             /\ request_id' = request_id
             /\ subscriptions' = subscriptions /\ iter' = iter
        /\ \A i \in Ids :
             (pending[i] = 0 /\ pending'[i] # 0) =>
                 /\ calls[pending'[i]].op = "none"
                 /\ calls'[pending'[i]].op \in {"request", "subscribe", "unsubscribe"}
                 /\ calls'[pending'[i]].id = i ]_vars

\* C29 witness: a subscription was registered, the connection was lost and
\* reopened, and nothing is pending on the new connection: the only call in
\* flight is the request the loss rejected.
C29_ReconnectedWithoutSubscribe ==
    /\ client = "ws" /\ ~closed
    /\ sock = "open" /\ recv_task = "running" /\ reconnect_attempts = 0
    /\ 1 \in subscriptions /\ iter[1] = "callback"
    /\ calls[2].pc = "await" /\ fut[2].st = "exception"
    /\ pending = EmptyPending

\* C30: session_id is None until a handshake has succeeded, is then the id
\* of the server's response (the UUID text of its 16 bytes), and is None
\* again once close() has returned.
C30_SessionLifetime ==
    /\ (hs.stage \in {"init", "sent", "failed"} /\ closePc = "idle") => session_id = None
    /\ (hs.stage = "connected" /\ closePc = "idle") =>
           session_id = Str(UuidStr(SubSeq(hs.response, 4, 19)))
    /\ closePc = "done" => session_id = None

\* C27 (as the claim states it): for a frame whose length field exceeds
\* MAX_MESSAGE_SIZE the receive loop never asks for the payload (nothing is
\* decoded or dispatched), and the loop ends with the message-too-large error.
C27_OversizedFrameRejected ==
    (ret.fn = "_receive_loop" /\ UnpackI(SubSeq(ret.arg, 1, 4)) > MAX_MESSAGE_SIZE) =>
        /\ ~ret.val.ok
        /\ ret.val.exc = "SquirrelDBError" /\ ret.val.msg = "Message too large"

\* C27: for a frame whose length field exceeds MAX_MESSAGE_SIZE the receive
\* loop never asks for the payload and ends: with the message-too-large
\* error if the type and encoding bytes are members of their enums, with the
\* ValueError of the enum otherwise.
C27_OversizedFrameEndsLoop ==
    (ret.fn = "_receive_loop" /\ UnpackI(SubSeq(ret.arg, 1, 4)) > MAX_MESSAGE_SIZE) =>
        /\ ~ret.val.ok
        /\ IF ret.arg[5] \in MessageType /\ ret.arg[6] \in Encoding
           THEN ret.val.exc = "SquirrelDBError" /\ ret.val.msg = "Message too large"
           ELSE ret.val.exc = "ValueError"

\* C27 witness: a well-formed RESPONSE header announcing one byte more than
\* MAX_MESSAGE_SIZE was refused as too large.
C27_OneOverLimit ==
    /\ ret.fn = "_receive_loop"
    /\ ret.arg = PackI(MAX_MESSAGE_SIZE + 1) \o << RESPONSE, MESSAGEPACK >>
    /\ ret.val = Raise("SquirrelDBError", "Message too large")

\* C22: for every message of maps, lists, integers, strings and booleans and
\* for both encodings, decode_message(encode_message(msg, e), e) returns a
\* message equal to msg.
C22_RoundTrip ==
    ret.fn = "roundtrip" => (ret.val.ok /\ ret.val.val = ret.arg.msg)

\* C31: a notification for a subscription that the receive loop reads after
\* that subscription's success response is never dispatched to nowhere, also
\* when the subscribe() caller has not resumed yet to register the queue.
C31_NoNotificationLost ==
    client = "tcp" => ~(last.type = "change" /\ Answered(last.id))

\* C32: every id in the pending map belongs to a request whose caller is
\* still inside _send (waiting for the lock, writing, or awaiting the
\* future): once _send has raised for a failed write, or its caller was
\* cancelled, the id is no longer in the map.
C32_PendingOnlyAwaited ==
    \A i \in Ids :
        pending[i] # 0 =>
            /\ calls[pending[i]].pc \in {"lock", "drain", "await"}
            /\ calls[pending[i]].id = i

\* C33: a _connect of the tcp client whose handshake fails starts no receive
\* loop and retains no socket, and a _send on that client afterwards raises
\* 'Not connected' at once.
C33_FailedHandshakeNotConnected ==
    [][ client = "tcp" =>
          /\ (sock = "none" /\ recv_task' = "none") => sock' = "none"
          /\ \A c \in Calls :
                (recv_task = "none" /\ closePc = "idle" /\ SendStarts(c)) => RaisedAtOnce(c) ]_vars

\* The caller of subscribe call c resumes with a response of type "error".
SubscribeRefused(c) ==
    /\ calls[c].op = "subscribe" /\ calls[c].pc = "await" /\ calls'[c].pc # "await"
    /\ fut[c].st = "result" /\ fut[c].msg.type = "error"

\* C34 (as the claim states it): a subscribe answered with an error response
\* raises SquirrelDBError and leaves the subscription map unchanged; an id
\* enters the map only when its subscribe returns, and no notification is
\* queued for an id that is not in the map.
C34_SubscribeOnlyOnSuccess ==
    [][ /\ \A c \in Calls :
             SubscribeRefused(c) =>
                 /\ raised' = Raised(c, "SquirrelDBError", fut[c].msg)
                 /\ subscriptions' = subscriptions /\ iter' = iter
        /\ \A i \in Ids :
             /\ (i \in subscriptions' /\ i \notin subscriptions) =>
                    \E c \in Calls :
                        /\ calls[c].op = "subscribe" /\ calls[c].id = i
                        /\ fut[c].st = "result" /\ fut[c].msg.type # "error"
                        /\ calls'[c] = Finished /\ raised' = NoRaise
             /\ i \notin subscriptions => Len(queue'[i]) <= Len(queue[i]) ]_vars

\* C34: the same, the exception being SquirrelDBError in the tcp client and
\* Exception in the WebSocket client.
C34_SubscribeOnlyOnSuccessPerClient ==
    [][ /\ \A c \in Calls :
             SubscribeRefused(c) =>
                 /\ raised' = Raised(c, IF client = "tcp" THEN "SquirrelDBError" ELSE "Exception",
                                     fut[c].msg)
                 /\ subscriptions' = subscriptions /\ iter' = iter
        /\ \A i \in Ids :
             /\ (i \in subscriptions' /\ i \notin subscriptions) =>
                    \E c \in Calls :
                        /\ calls[c].op = "subscribe" /\ calls[c].id = i
                        /\ fut[c].st = "result" /\ fut[c].msg.type # "error"
                        /\ calls'[c] = Finished /\ raised' = NoRaise
             /\ i \notin subscriptions => Len(queue'[i]) <= Len(queue[i]) ]_vars

\* C34 witness: the subscribe with id 1 has just raised SquirrelDBError for
\* the error response with id 1; no subscription is registered and no
\* Subscription was returned.
C34_SubscribeRaised ==
    /\ client = "tcp"
    /\ raised.op = "subscribe" /\ raised.exc = "SquirrelDBError"
    /\ raised.msg = [id |-> 1, type |-> "error"]
    /\ subscriptions = {} /\ Held = {}

\* C36: a frame header whose length field is below 2 is rejected as malformed:
\* parse_frame_header and the receive loop either fail on it or hand on a
\* payload length that is not negative, so the loop never asks the reader for
\* a negative number of payload bytes.
C36_PayloadLengthNonNegative ==
    /\ ret.fn = "parse_frame_header" /\ ret.val.ok => ret.val.val.payload_length >= 0
    /\ ret.fn = "_receive_loop" /\ ret.val.ok => ret.val.val.payload_len >= 0

(***************************************************************************)
(* Delivery of change notifications by the tcp client: the notifications   *)
(* are numbered in the order the server sends them, and the histories      *)
(* received and yielded record what the receive loop took in for each      *)
(* registered subscription and what each iterator returned.                *)
(***************************************************************************)
DeliveryInit ==
    /\ ConnInit /\ client = "tcp"
    /\ ProtoIdle /\ DeliverIdle /\ CacheIdle

\* The k-th notification the server sends, for subscription id i.
Event(i, k) == [id |-> i, type |-> "change", n |-> k]

\* SquirrelDBTcp._connect succeeds: the socket is open and the loop runs.
DeliverConnect ==
    /\ sock = "none"
    /\ sock' = "open"
    /\ recv_task' = "running"
    /\ UNCHANGED << client, cfg, closed, request_id, pending, subscriptions, queue,
                    calls, fut, write_lock, closePc, sub_closed, iter,
                    reconnect_attempts, unsub_done, last, raised, delay,
                    protoVars, deliverVars, cacheVars >>

\* subscribe() up to "await future" in _send: the id is drawn, the future is
\* stored under it and the frame is written.
DeliverSubscribeSend ==
    /\ sock = "open"
    /\ request_id < MaxCalls
    /\ LET i == request_id + 1
       IN  /\ request_id' = i
           /\ pending' = [pending EXCEPT ![i] = i]
           /\ fut' = [fut EXCEPT ![i] = NewFuture]
           /\ calls' = [calls EXCEPT ![i] = [op |-> "subscribe", id |-> i, pc |-> "await"]]
    /\ UNCHANGED << client, cfg, sock, closed, recv_task, subscriptions, queue,
                    write_lock, closePc, sub_closed, iter,
                    reconnect_attempts, unsub_done, last, raised, delay,
                    protoVars, deliverVars, cacheVars >>

\* The receive loop reads the response to request i and dispatches it.
DeliverResponse(i, type) ==
    /\ recv_task = "running"
    /\ pending[i] # 0
    /\ LET m == [id |-> i, type |-> type]
       IN  Dispatch(m, TcpRoute(m))
    /\ UNCHANGED << client, cfg, sock, closed, recv_task, request_id, subscriptions,
                    calls, write_lock, closePc, sub_closed, iter,
                    reconnect_attempts, unsub_done, last, raised, delay,
                    protoVars, deliverVars, cacheVars >>

\* subscribe() resumes with the response: an error response raises, any other
\* registers a new queue under the id and returns the Subscription.
DeliverSubscribeReturn(i) ==
    /\ calls[i].pc = "await"
    /\ fut[i].st = "result"
    /\ calls' = [calls EXCEPT ![i] = Finished]
    /\ IF fut[i].msg.type = "error"
       THEN UNCHANGED << subscriptions, queue, iter >>
       ELSE /\ subscriptions' = subscriptions \cup {i}
            /\ queue' = [queue EXCEPT ![i] = << >>]
            /\ iter' = [iter EXCEPT ![i] = "idle"]
    /\ UNCHANGED << client, cfg, sock, closed, recv_task, request_id, pending,
                    fut, write_lock, closePc, sub_closed,
                    reconnect_attempts, unsub_done, last, raised, delay,
                    protoVars, deliverVars, cacheVars >>

\* The receive loop reads the next notification, which carries id i, and
\* dispatches it; received takes it when subscription i is registered.
DeliverNotify(i) ==
    /\ recv_task = "running"
    /\ sent < MaxEvents
    /\ sent' = sent + 1
    /\ LET m == Event(i, sent + 1)
       IN  /\ Dispatch(m, TcpRoute(m))
           /\ received' = IF i \in subscriptions
                          THEN [received EXCEPT ![i] = Append(@, m)] ELSE received
    /\ UNCHANGED << client, cfg, sock, closed, recv_task, request_id, subscriptions,
                    calls, write_lock, closePc, sub_closed, iter,
                    reconnect_attempts, unsub_done, last, raised, delay,
                    protoVars, yielded, cacheVars >>

\* Subscription.__anext__ is called: StopAsyncIteration if the Subscription is
\* closed, else queue.get(), which returns the leftmost event at once or
\* suspends on an empty queue.
DeliverAnextCall(s) ==
    /\ iter[s] = "idle"
    /\ IF s \in sub_closed
       THEN iter' = [iter EXCEPT ![s] = "stopped"] /\ UNCHANGED << queue, yielded >>
       ELSE IF queue[s] # << >>
            THEN /\ queue' = [queue EXCEPT ![s] = Tail(@)]
                 /\ yielded' = [yielded EXCEPT ![s] = Append(@, Head(queue[s]))]
                 /\ UNCHANGED iter
            ELSE iter' = [iter EXCEPT ![s] = "waiting"] /\ UNCHANGED << queue, yielded >>
    /\ UNCHANGED << client, cfg, sock, closed, recv_task, request_id, pending,
                    subscriptions, calls, fut, write_lock, closePc, sub_closed,
                    reconnect_attempts, unsub_done, last, raised, delay,
                    protoVars, sent, received, cacheVars >>

\* The suspended queue.get() resumes after a put and returns the leftmost event.
DeliverAnextWake(s) ==
    /\ iter[s] = "waiting"
    /\ queue[s] # << >>
    /\ queue' = [queue EXCEPT ![s] = Tail(@)]
    /\ yielded' = [yielded EXCEPT ![s] = Append(@, Head(queue[s]))]
    /\ iter' = [iter EXCEPT ![s] = "idle"]
    /\ UNCHANGED << client, cfg, sock, closed, recv_task, request_id, pending,
                    subscriptions, calls, fut, write_lock, closePc, sub_closed,
                    reconnect_attempts, unsub_done, last, raised, delay,
                    protoVars, sent, received, cacheVars >>

\* The iterating task is cancelled while queue.get() is suspended: get leaves
\* the queue as it is and __anext__ raises StopAsyncIteration.
DeliverAnextCancel(s) ==
    /\ iter[s] = "waiting"
    /\ iter' = [iter EXCEPT ![s] = "stopped"]
    /\ UNCHANGED << client, cfg, sock, closed, recv_task, request_id, pending,
                    subscriptions, queue, calls, fut, write_lock, closePc, sub_closed,
                    reconnect_attempts, unsub_done, last, raised, delay,
                    protoVars, deliverVars, cacheVars >>

\* unsubscribe: the client's pops the id from the map; the Subscription's
\* (viaSubscription) sets its _closed first.
DeliverUnsubscribe(s, viaSubscription) ==
    /\ s \in subscriptions
    /\ subscriptions' = subscriptions \ {s}
    /\ sub_closed' = IF viaSubscription THEN sub_closed \cup {s} ELSE sub_closed
    /\ UNCHANGED << client, cfg, sock, closed, recv_task, request_id, pending,
                    queue, calls, fut, write_lock, closePc, iter,
                    reconnect_attempts, unsub_done, last, raised, delay,
                    protoVars, deliverVars, cacheVars >>

DeliveryNext ==
    \/ DeliverConnect
    \/ DeliverSubscribeSend
    \/ \E i \in Ids, type \in {"result", "error"} : DeliverResponse(i, type)
    \/ \E i \in Ids : DeliverSubscribeReturn(i)
    \/ \E i \in Ids : DeliverNotify(i)
    \/ \E s \in Ids : DeliverAnextCall(s)
    \/ \E s \in Ids : DeliverAnextWake(s)
    \/ \E s \in Ids : DeliverAnextCancel(s)
    \/ \E s \in Ids, viaSubscription \in BOOLEAN : DeliverUnsubscribe(s, viaSubscription)

DeliverySpec == DeliveryInit /\ [][DeliveryNext]_vars

\* C35: while a subscription is registered, its iterator yields the change
\* events in exactly the order the receive loop received that subscription's
\* notifications, each once, none skipped or duplicated (what was received is
\* what was yielded followed by what the queue still holds), and no queue or
\* iterator holds the event of another subscription.
C35_EventsInOrder ==
    \A s \in Ids :
        /\ yielded[s] \o queue[s] = received[s]
        /\ \A k \in 1..Len(queue[s]) : queue[s][k].id = s
        /\ \A k \in 1..Len(yielded[s]) : yielded[s][k].id = s

\* The iterator of subscription 1 has yielded the two events the loop received
\* for it, in the order of receipt, while subscription 2 is registered too.
C35_TwoEventsYielded ==
    /\ yielded[1] = << Event(1, 1), Event(1, 2) >>
    /\ subscriptions = {1, 2}

(***************************************************************************)
(* The cache client (squirreldb/cache.py): callers of Cache._execute share *)
(* one connection.  A command is named by the caller that wrote it; the    *)
(* server answers the commands in the order it reads them, and the reply   *)
(* to command c is written c.                                              *)
(***************************************************************************)
CacheInit ==
    /\ ConnInit /\ client = "tcp"
    /\ ProtoIdle /\ DeliverIdle /\ CacheIdle

\* Cache._connect: self._writer and self._parser are set.
CacheConnect ==
    /\ sock = "none"
    /\ sock' = "open"
    /\ UNCHANGED << client, cfg, closed, recv_task, request_id, pending, subscriptions,
                    queue, calls, fut, write_lock, closePc, sub_closed, iter,
                    reconnect_attempts, unsub_done, last, raised, delay,
                    protoVars, deliverVars, cacheVars >>

\* The caller holding the lock writes its command; drain is the next await.
ExecuteWrite(c) ==
    /\ cache_lock' = c
    /\ written' = Append(written, c)
    /\ executes' = [executes EXCEPT ![c].pc = "drain"]
    /\ UNCHANGED inbuf

\* self._parser.parse() has a whole reply to read: it is taken from the
\* buffer and returned, and "async with" releases the lock.
ExecuteRead(c) ==
    /\ inbuf' = Tail(inbuf)
    /\ executes' = [executes EXCEPT ![c] = [pc |-> "done", reply |-> Head(inbuf)]]
    /\ cache_lock' = 0
    /\ UNCHANGED written

\* _execute is called: ConnectionError when not connected; else the lock is
\* taken at once when it is free and nobody waits for it, and the command is
\* written; else the caller waits for the lock.
ExecuteCall(c) ==
    /\ executes[c].pc = "idle"
    /\ IF sock = "none"
       THEN /\ executes' = [executes EXCEPT ![c].pc = "raised"]
            /\ UNCHANGED << cache_lock, written, inbuf >>
       ELSE IF cache_lock = 0 /\ \A d \in Executors : executes[d].pc # "lock"
            THEN ExecuteWrite(c)
            ELSE /\ executes' = [executes EXCEPT ![c].pc = "lock"]
                 /\ UNCHANGED << cache_lock, written, inbuf >>
    /\ UNCHANGED << connVars, protoVars, deliverVars, served >>

\* A caller waiting for the lock gets it and writes its command.
ExecuteAcquire(c) ==
    /\ executes[c].pc = "lock"
    /\ cache_lock = 0
    /\ ExecuteWrite(c)
    /\ UNCHANGED << connVars, protoVars, deliverVars, served >>

\* drain() returns and parse() is called: readline returns without suspending
\* when the buffer holds a reply, else it waits for data.
ExecuteDrain(c) ==
    /\ executes[c].pc = "drain"
    /\ IF inbuf # << >>
       THEN ExecuteRead(c)
       ELSE /\ executes' = [executes EXCEPT ![c].pc = "parse"]
            /\ UNCHANGED << cache_lock, written, inbuf >>
    /\ UNCHANGED << connVars, protoVars, deliverVars, served >>

\* Data arrived while parse() was waiting.
ExecuteParse(c) ==
    /\ executes[c].pc = "parse"
    /\ inbuf # << >>
    /\ ExecuteRead(c)
    /\ UNCHANGED << connVars, protoVars, deliverVars, served >>

\* The caller's task is cancelled at one of _execute's awaits (a timeout of
\* asyncio.wait_for does the same): CancelledError leaves "async with", which
\* releases the lock if it was held; nothing else is undone.
ExecuteCancel(c) ==
    /\ executes[c].pc \in {"lock", "drain", "parse"}
    /\ executes' = [executes EXCEPT ![c].pc = "cancelled"]
    /\ cache_lock' = IF cache_lock = c THEN 0 ELSE cache_lock
    /\ UNCHANGED << connVars, protoVars, deliverVars, written, served, inbuf >>

\* The server answers the oldest command it has not answered; the reply
\* reaches the client's StreamReader.
ServerReply ==
    /\ served < Len(written)
    /\ served' = served + 1
    /\ inbuf' = Append(inbuf, written[served + 1])
    /\ UNCHANGED << connVars, protoVars, deliverVars, cache_lock, executes, written >>

CacheNext ==
    \/ CacheConnect
    \/ \E c \in Executors : ExecuteCall(c)
    \/ \E c \in Executors : ExecuteAcquire(c)
    \/ \E c \in Executors : ExecuteDrain(c)
    \/ \E c \in Executors : ExecuteParse(c)
    \/ \E c \in Executors : ExecuteCancel(c)
    \/ ServerReply

CacheSpec == CacheInit /\ [][CacheNext]_vars

\* C37: every _execute call that returns, returns the server's reply to its
\* own command, under any interleaving of concurrent callers and also after
\* another caller's _execute was cancelled between writing its command and
\* reading its reply.
C37_ReplyToOwnCommand ==
    \A c \in Executors : executes[c].pc = "done" => executes[c].reply = c

====
